---------------------------- MODULE Spec2Model ----------------------------
(***************************************************************************)
(* A model of the SmartVault backend's video ingestion pipeline:           *)
(*   routes.ts  POST /save-video                                           *)
(*   video.ts   detectVideoPlatform, extractCaptions, transcribeAudio,     *)
(*              processVideo                                               *)
(*   videoAI.ts transformVideoContent                                      *)
(*   storage.ts MemStorage.createItem                                      *)
(*                                                                         *)
(* Text is a sequence of one-character strings, so that the string         *)
(* operations of the code (includes, trim, split, substring, case          *)
(* conversion) are computed and not assumed.  A JavaScript value is a      *)
(* tagged record.  Node runs one handler at a time between two awaits, so  *)
(* an action is the code between two suspension points; the external tool, *)
(* the transcription client and the chat client are the environment.       *)
(***************************************************************************)
EXTENDS Integers, Sequences, FiniteSets, TLC

(***************************************************************************)
(* Text                                                                    *)
(***************************************************************************)

Min(a, b) == IF a < b THEN a ELSE b

\* The characters \s matches, among those the model's texts use.
IsSpace(c) == c \in {" ", "\n", "\t", "\r"}

IsDigit(c) == c \in {"0", "1", "2", "3", "4", "5", "6", "7", "8", "9"}

UpperLetters == <<"A","B","C","D","E","F","G","H","I","J","K","L","M","N","O","P","Q","R","S","T","U","V","W","X","Y","Z">>

LowerLetters == <<"a","b","c","d","e","f","g","h","i","j","k","l","m","n","o","p","q","r","s","t","u","v","w","x","y","z">>

LowerChar(c) ==
    IF \E k \in 1..26 : UpperLetters[k] = c
    THEN LowerLetters[CHOOSE k \in 1..26 : UpperLetters[k] = c]
    ELSE c

UpperChar(c) ==
    IF \E k \in 1..26 : LowerLetters[k] = c
    THEN UpperLetters[CHOOSE k \in 1..26 : LowerLetters[k] = c]
    ELSE c

\* s.toLowerCase() that leaves the letters as they are
KeepCase(s) == s

\* String.prototype.toLowerCase / toUpperCase
ToLowerCase(s) == [k \in 1..Len(s) |-> LowerChar(s[k])]

\* String.prototype.substring(a, b), 0 <= a: the characters a .. b-1 (0-based).
Substring(s, a, b) == SubSeq(s, Min(a, Len(s)) + 1, Min(b, Len(s)))

\* String.prototype.slice(a) for a >= 0
SliceFrom(s, a) == SubSeq(s, Min(a, Len(s)) + 1, Len(s))

StartsWith(s, p) == Len(p) <= Len(s) /\ SubSeq(s, 1, Len(p)) = p

\* String.prototype.includes
Includes(s, p) == \E k \in 0..(Len(s) - Len(p)) : SubSeq(s, k + 1, k + Len(p)) = p

\* String.prototype.trim
Trim(s) ==
    IF \A k \in 1..Len(s) : IsSpace(s[k])
    THEN << >>
    ELSE LET first == CHOOSE k \in 1..Len(s) :
                          ~IsSpace(s[k]) /\ \A j \in 1..(k - 1) : IsSpace(s[j])
             last == CHOOSE k \in 1..Len(s) :
                          ~IsSpace(s[k]) /\ \A j \in (k + 1)..Len(s) : IsSpace(s[j])
         IN SubSeq(s, first, last)

\* The positions 1..Len(s), in order
Positions(s) == [k \in 1..Len(s) |-> k]

\* s.split(c): the pieces of s between the occurrences of the character c.
Split(s, c) ==
    LET at == SelectSeq(Positions(s), LAMBDA k : s[k] = c)
        from(j) == IF j = 1 THEN 1 ELSE at[j - 1] + 1
        to(j) == IF j = Len(at) + 1 THEN Len(s) ELSE at[j] - 1
    IN [j \in 1..(Len(at) + 1) |-> SubSeq(s, from(j), to(j))]

\* pieces.join(sep)
RECURSIVE Join(_, _)
Join(pieces, sep) ==
    IF Len(pieces) = 0 THEN << >>
    ELSE IF Len(pieces) = 1 THEN pieces[1]
    ELSE pieces[1] \o sep \o Join(Tail(pieces), sep)

\* s.replace(/\s+/g, ' '): every run of white space becomes one space.
CollapseWhitespace(s) ==
    LET kept == SelectSeq(Positions(s),
                          LAMBDA k : ~IsSpace(s[k]) \/ k = 1 \/ ~IsSpace(s[k - 1]))
    IN [j \in 1..Len(kept) |-> IF IsSpace(s[kept[j]]) THEN " " ELSE s[kept[j]]]

\* s.replace(/[#@]/g, '')
StripHashAt(s) == SelectSeq(s, LAMBDA c : c \notin {"#", "@"})

\* /^\d+$/ : a non-empty run of digits and nothing else
AllDigits(s) == Len(s) > 0 /\ \A k \in 1..Len(s) : IsDigit(s[k])

\* The text p followed by the letter a as often as makes n characters in all
Pad(p, n) == p \o [k \in 1..(n - Len(p)) |-> "a"]


(***************************************************************************)
(* video.ts: the Platform Classifier                                       *)
(***************************************************************************)

\* detectVideoPlatform(url): the platform record { type, supported }.
detectVideoPlatform(url) ==
    LET urlLower == ToLowerCase(url)
    IN IF Includes(urlLower, <<"t","i","k","t","o","k",".","c","o","m">>) \/ Includes(urlLower, <<"v","m",".","t","i","k","t","o","k",".","c","o","m">>)
       THEN [type |-> "tiktok", supported |-> TRUE]
       ELSE IF Includes(urlLower, <<"i","n","s","t","a","g","r","a","m",".","c","o","m">>)
               /\ (Includes(urlLower, <<"/","r","e","e","l","/">>) \/ Includes(urlLower, <<"/","r","e","e","l","s","/">>))
       THEN [type |-> "instagram", supported |-> TRUE]
       ELSE IF Includes(urlLower, <<"y","o","u","t","u","b","e",".","c","o","m">>) \/ Includes(urlLower, <<"y","o","u","t","u",".","b","e">>)
       THEN IF Includes(urlLower, <<"/","s","h","o","r","t","s","/">>) \/ Includes(urlLower, <<"y","o","u","t","u","b","e",".","c","o","m","/","s","h","o","r","t","s","/">>)
            THEN [type |-> "youtube", supported |-> TRUE]
            ELSE [type |-> "youtube", supported |-> TRUE]
       ELSE [type |-> "youtube", supported |-> FALSE]

\* The request bodies' url values.  UrlMissing is a body without a url (or an
\* empty one); UrlNoScheme is text that new URL() rejects.
UrlMissing == << >>

UrlTikTok == <<"h","t","t","p","s",":","/","/","v","m",".","T","i","k","T","o","k",".","c","o","m","/","Z","M","1">>

UrlInstagramPost == <<"h","t","t","p","s",":","/","/","w","w","w",".","i","n","s","t","a","g","r","a","m",".","c","o","m","/","p","/","C","x","1","/">>

UrlNoScheme == <<"t","i","k","t","o","k",".","c","o","m","/","Z","M","1">>

Urls == {UrlMissing, UrlTikTok, UrlInstagramPost, UrlNoScheme}

SchemeSeparator == <<":","/","/">>

\* new URL(url) succeeds: the text has a scheme, "//" and a host after it.
\* (The WHATWG parser accepts more; these are the forms the model's urls take.)
IsValidUrl(url) ==
    /\ Includes(url, SchemeSeparator)
    /\ LET p == CHOOSE k \in 0..(Len(url) - 3) : SubSeq(url, k + 1, k + 3) = SchemeSeparator
                    /\ \A j \in 0..(k - 1) : SubSeq(url, j + 1, j + 3) # SchemeSeparator
       IN /\ p > 0
          /\ \A k \in 1..p : LowerChar(url[k]) \in {LowerLetters[j] : j \in 1..26}
          /\ Len(url) > p + 3
          /\ url[p + 4] # "/"

\* new URL(url).hostname, for a url IsValidUrl accepts
Hostname(url) ==
    LET p == CHOOSE k \in 0..(Len(url) - 3) : SubSeq(url, k + 1, k + 3) = SchemeSeparator
                    /\ \A j \in 0..(k - 1) : SubSeq(url, j + 1, j + 3) # SchemeSeparator
    IN ToLowerCase(Split(SliceFrom(url, p + 3), "/")[1])

(***************************************************************************)
(* video.ts: temporary files and subtitle parsing                          *)
(***************************************************************************)

\* captionText.length > 50, captions.length > 50
MinCaptionLength == 50

\* A temporary file's name is <prefix>-<timestamp>.<ext> in os.tmpdir():
\* captions-<t>.<lang>.<ext> (yt-dlp fills the %(ext)s of extractCaptions'
\* template), audio-<t>.<ext> (processVideo), whisper-<t>.<ext>
\* (transcribeAudio).  The name is kept as its three parts.
FileName(prefix, ts, ext) == [prefix |-> prefix, ts |-> ts, ext |-> ext]

\* The extensions extractCaptions looks for, and those it parses.
SubtitleExts == {"vtt", "srt", "ttml", "json3"}

ParsedSubtitleExts == {"vtt", "srt"}

\* extractCaptions: captionFile.split('-').pop()?.replace('.%(ext)', '').
\* The template ends in ".%(ext)s", so what is left is the digits of the
\* timestamp followed by the letter s.
CaptionTimestamp(ts) == [digits |-> ts, rest |-> "s"]

\* processVideo: outputFile.split('-').pop(), the digits of the timestamp.
AudioTimestamp(ts) == [digits |-> ts, rest |-> ""]

\* f.includes(timestamp) for a file name f: the name holds the digits, then
\* "." and the extension, so it includes the digits alone and nothing longer.
NameIncludes(f, timestamp) == timestamp.rest = "" /\ f.ts = timestamp.digits

\* extractCaptions' filter of readdirSync(tempDir)
IsCaptionCandidate(f, timestamp) ==
    /\ (f.prefix = "captions" \/ NameIncludes(f, timestamp))
    /\ f.ext \in SubtitleExts

\* processVideo's filter of readdirSync(tempDir), in the search for the audio
\* file and in the clean-up after an error
IsAudioCandidate(f, timestamp) ==
    (f.prefix = "audio" /\ f.ts = timestamp.digits) \/ NameIncludes(f, timestamp)

\* A line of a .vtt file: it is skipped (header, timing, number, blank, tag)
\* or it is cue text.
IsVttTextLine(trimmed) ==
    /\ ~(trimmed = << >> \/ StartsWith(trimmed, <<"W","E","B","V","T","T">>) \/ Includes(trimmed, <<"-","-",">">>)
            \/ AllDigits(trimmed))
    /\ Len(trimmed) > 0
    /\ ~StartsWith(trimmed, << "<" >>)

IsSrtTextLine(line) ==
    /\ ~(line = << >> \/ AllDigits(line) \/ Includes(line, <<"-","-",">">>))
    /\ Len(line) > 0

TrimAll(lines) == [k \in 1..Len(lines) |-> Trim(lines[k])]

\* extractCaptions, the .vtt branch: the caption text of a file's content
ParseVtt(subtitleContent) ==
    LET lines == Split(subtitleContent, "\n")
        textLines == SelectSeq(TrimAll(lines), IsVttTextLine)
    IN Trim(CollapseWhitespace(Join(textLines, << " " >>)))

\* extractCaptions, the .srt branch
ParseSrt(subtitleContent) ==
    LET lines == Split(subtitleContent, "\n")
        textLines == SelectSeq(TrimAll(lines), IsSrtTextLine)
    IN Trim(CollapseWhitespace(Join(textLines, << " " >>)))

\* The result of extractCaptions once the text is recovered: the text when it
\* is long enough, null otherwise.  Null is the empty record tag below.
Null == [t |-> "null"]

Text(s) == [t |-> "string", s |-> s]

IsText(v) == v.t = "string"

\* extractCaptions as it would be if it returned every parsed text
CaptionResultAny(captionText) == Text(captionText)

\* Lines 869-871 and 907-909, and the return null of line 913
CaptionResult(captionText) ==
    IF Len(captionText) > MinCaptionLength THEN Text(captionText) ELSE Null

\* Subtitle files the external tool may write.
VttPrologue == <<"W","E","B","V","T","T","\n","\n","0","0",":","0","1"," ","-","-",">"," ","0","0",":","0","4","\n">>

SrtPrologue == <<"1","\n","0","0",":","0","1"," ","-","-",">"," ","0","0",":","0","4","\n">>

CueText == <<"M","i","x"," ","2"," ","c","u","p","s"," ","f","l","o","u","r","."," ">>

\* a cue of exactly n characters
Cue(n) == Pad(CueText, n)

VttDoc(n) == VttPrologue \o Cue(n) \o << "\n" >>

SrtDoc(n) == SrtPrologue \o Cue(n) \o << "\n", "\n" >>

TtmlDoc == <<"<","t","t",">","<","p",">","M","i","x","<","/","p",">","<","/","t","t",">">>

(***************************************************************************)
(* JavaScript values, as the chat client's JSON and the code's locals hold *)
(* them.  An absent property reads as Undefined.                           *)
(***************************************************************************)

Undefined == [t |-> "undefined"]

Num(n) == [t |-> "number", n |-> n]

Obj(o) == [t |-> "object", o |-> o]

IsObjectLike(v) == v.t \in {"object", "array"}

\* v.k for a value v that is neither null nor undefined
Get(v, k) == IF IsObjectLike(v) THEN v.o[k] ELSE Undefined

\* v.k = x for an object or array v; delete v.k is v.k = undefined
SetProp(v, k, x) == [v EXCEPT !.o[k] = x]

\* The truth value of v in a condition (!v, v || d, v && d)
Truthy(v) ==
    CASE v.t \in {"undefined", "null"} -> FALSE
      [] v.t = "string" -> v.s # << >>
      [] v.t = "number" -> v.n # 0
      [] v.t = "boolean" -> v.b
      [] OTHER -> TRUE

\* v || d
OrElse(v, d) == IF Truthy(v) THEN v ELSE d

\* The decimal digits of a natural number
RECURSIVE NatToText(_)
NatToText(n) ==
    LET d == <<"0", "1", "2", "3", "4", "5", "6", "7", "8", "9">>
    IN IF n < 10 THEN << d[n + 1] >> ELSE NatToText(n \div 10) \o << d[(n % 10) + 1] >>

DigitValue(c) == CHOOSE n \in 0..9 : NatToText(n) = << c >>

\* parseInt(digits, 10) for a run of digits
RECURSIVE ParseInt(_)
ParseInt(digits) ==
    IF Len(digits) = 0 THEN 0
    ELSE 10 * ParseInt(SubSeq(digits, 1, Len(digits) - 1)) + DigitValue(digits[Len(digits)])

\* s.match(/\d+/): the first run of digits of s, or the empty text when s has none
FirstDigitRun(s) ==
    IF \A k \in 1..Len(s) : ~IsDigit(s[k])
    THEN << >>
    ELSE LET first == CHOOSE k \in 1..Len(s) :
                          IsDigit(s[k]) /\ \A j \in 1..(k - 1) : ~IsDigit(s[j])
             last == CHOOSE k \in first..Len(s) :
                          /\ \A j \in first..k : IsDigit(s[j])
                          /\ (k = Len(s) \/ ~IsDigit(s[k + 1]))
         IN SubSeq(s, first, last)

\* String(v) for the values a time field may hold
StringOf(v) ==
    CASE v.t = "string" -> v.s
      [] v.t = "number" -> NatToText(v.n)
      [] v.t = "boolean" -> IF v.b THEN <<"t","r","u","e">> ELSE <<"f","a","l","s","e">>
      [] v.t = "array" -> << >>
      [] OTHER -> <<"[","o","b","j","e","c","t"," ","O","b","j","e","c","t","]">>

(***************************************************************************)
(* Errors and results.  A computation that may throw yields Ok(v) or       *)
(* Throw(e); an error carries the three fields the fallback loop reads.    *)
(***************************************************************************)

Error(message) == [message |-> message, status |-> 0, code |-> "none"]

ApiError(message, status, code) == [message |-> message, status |-> status, code |-> code]

Ok(v) == [ok |-> TRUE, v |-> v]

Throw(e) == [ok |-> FALSE, error |-> e]

MsgApiKeyNotSet == <<"O","P","E","N","A","I","_","A","P","I","_","K","E","Y"," ","n","o","t"," ","s","e","t">>

MsgInvalidJson == <<"I","n","v","a","l","i","d"," ","J","S","O","N"," ","r","e","s","p","o","n","s","e">>

\* The property names the model's JSON uses.  An object holds every one of
\* them, Undefined where the JSON text has no such member.
Keys ==
    {"title", "type", "category", "summary", "recipe", "workout", "tutorial",
     "name", "ingredients", "instructions", "servings", "prepTime", "cookTime"}

NoProps == [k \in Keys |-> Undefined]

\* The object with the members of the record fields
Object(fields) ==
    Obj([k \in Keys |-> IF k \in DOMAIN fields THEN fields[k] ELSE Undefined])

\* An array is an object too: o holds the properties assigned to it.
Array(a) == [t |-> "array", a |-> a, o |-> NoProps]

\* v?.k
OptGet(v, k) == IF v.t \in {"undefined", "null"} THEN Undefined ELSE Get(v, k)

TypeOfText(v) ==
    CASE v.t = "string" -> <<"s","t","r","i","n","g">>
      [] v.t = "number" -> <<"n","u","m","b","e","r">>
      [] OTHER -> <<"b","o","o","l","e","a","n">>

(***************************************************************************)
(* videoAI.ts: transformVideoContent, the code after the response is       *)
(* parsed                                                                  *)
(***************************************************************************)

VideoTitle == <<"V","i","d","e","o">>

GeneralCategory == <<"G","e","n","e","r","a","l">>

GeneralType == <<"g","e","n","e","r","a","l">>

\* .substring(0, 60) of the title, transcript.substring(0, 50) and
\* .substring(0, 200), summary.length > 200 and .substring(0, 197)
MaxTitleLength == 60

TitleSourceLength == 50

MaxSummaryLength == 200

SummaryCutLength == 197

\* The repair of a truthy result.recipe.  The module is strict code, so
\* assigning a property to a string, number or boolean throws.
RepairRecipe(recipeData) ==
    LET FixArray(r, k) ==
            IF Get(r, k).t = "array" THEN r ELSE SetProp(r, k, Array(<< >>))
        FixName(r) ==
            IF ~Truthy(Get(r, "name")) \/ Trim(Get(r, "name").s) = << >>
            THEN SetProp(r, "name", Text(<<"U","n","t","i","t","l","e","d"," ","R","e","c","i","p","e">>))
            ELSE r
        FixServings(r) ==
            IF Truthy(Get(r, "servings")) /\ Get(r, "servings").t = "string"
            THEN IF FirstDigitRun(Get(r, "servings").s) # << >>
                 THEN SetProp(r, "servings",
                              Num(ParseInt(FirstDigitRun(Get(r, "servings").s))))
                 ELSE SetProp(r, "servings", Undefined)
            ELSE r
        FixTime(r, k) ==
            IF Truthy(Get(r, k)) /\ Get(r, k).t # "string"
            THEN SetProp(r, k, Text(StringOf(Get(r, k))))
            ELSE r
        arrays == FixArray(FixArray(recipeData, "ingredients"), "instructions")
    IN IF ~IsObjectLike(recipeData)
       THEN Throw(Error(<<"C","a","n","n","o","t"," ","c","r","e","a","t","e"," ","p","r","o","p","e","r","t","y"," ","'","i","n","g","r","e","d","i","e","n","t","s","'"," ","o","n"," ">> \o TypeOfText(recipeData) \o << " ", "'" >>
                           \o StringOf(recipeData) \o << "'" >>))
       ELSE IF Truthy(Get(recipeData, "name")) /\ Get(recipeData, "name").t # "string"
       THEN Throw(Error(<<"r","e","c","i","p","e","D","a","t","a",".","n","a","m","e",".","t","r","i","m"," ","i","s"," ","n","o","t"," ","a"," ","f","u","n","c","t","i","o","n">>))
       ELSE Ok(FixTime(FixTime(FixServings(FixName(arrays)), "prepTime"), "cookTime"))

\* ...(v && { k: v }): the member is there when v is truthy
Spread(v) == IF Truthy(v) THEN v ELSE Undefined

StructuredContent(result, recipeData) ==
    [type |-> OrElse(Get(result, "type"), Text(GeneralType)),
     recipe |-> Spread(recipeData),
     workout |-> Spread(Get(result, "workout")),
     tutorial |-> Spread(Get(result, "tutorial"))]

\* The title before it is cleaned: the model's, or the fallback chain's.
RawTitle(result, recipeData, transcript) ==
    LET title == OrElse(Get(result, "title"), Text(<< >>))
    IN IF Truthy(title) /\ title.t # "string"
       THEN Throw(Error(<<"t","i","t","l","e",".","t","r","i","m"," ","i","s"," ","n","o","t"," ","a"," ","f","u","n","c","t","i","o","n">>))
       ELSE IF Truthy(title) /\ Len(Trim(title.s)) # 0
       THEN Ok(title)
       ELSE IF Truthy(OptGet(recipeData, "name"))
       THEN Ok(OptGet(recipeData, "name"))
       ELSE IF Truthy(OptGet(Get(result, "workout"), "name"))
       THEN Ok(OptGet(Get(result, "workout"), "name"))
       ELSE IF Truthy(OptGet(Get(result, "tutorial"), "title"))
       THEN Ok(OptGet(Get(result, "tutorial"), "title"))
       ELSE LET fallbackTitle == OrElse(Get(result, "summary"),
                                        Text(Substring(transcript, 0, TitleSourceLength)))
            IN IF fallbackTitle.t # "string"
               THEN Throw(Error(<<"f","a","l","l","b","a","c","k","T","i","t","l","e",".","s","p","l","i","t"," ","i","s"," ","n","o","t"," ","a"," ","f","u","n","c","t","i","o","n">>))
               ELSE Ok(Text(Trim(Split(fallbackTitle.s, ".")[1])))

\* title.split(' ').map(...).join(' '): the first character of every word
\* (the text between two spaces) in upper case, the others in lower case.
TitleCase(title) ==
    [k \in 1..Len(title) |->
        IF k = 1 \/ title[k - 1] = " " THEN UpperChar(title[k]) ELSE LowerChar(title[k])]

\* "Clean and format title", then "Ensure proper capitalization"
CleanTitle(title) ==
    TitleCase(Substring(CollapseWhitespace(StripHashAt(Trim(title))), 0, MaxTitleLength))

\* summary.length > 200 ? summary.substring(0, 197) + '...' : summary
CapSummary(summary) ==
    IF Len(summary) > MaxSummaryLength
    THEN Substring(summary, 0, SummaryCutLength) \o <<".",".",".">>
    ELSE summary

\* Lines 525-608: from the parsed result to the returned analysis, or the
\* error thrown on the way.
PostParse(result, transcript) ==
    IF result.t = "null"
    THEN Throw(Error(<<"C","a","n","n","o","t"," ","r","e","a","d"," ","p","r","o","p","e","r","t","i","e","s"," ","o","f"," ","n","u","l","l"," ","(","r","e","a","d","i","n","g"," ","'","r","e","c","i","p","e","'",")">>))
    ELSE LET repaired == IF Truthy(Get(result, "recipe"))
                         THEN RepairRecipe(Get(result, "recipe"))
                         ELSE Ok(Get(result, "recipe"))
         IN IF ~repaired.ok
            THEN repaired
            ELSE LET recipeData == repaired.v
                     raw == RawTitle(result, recipeData, transcript)
                 IN IF ~raw.ok
                    THEN raw
                    ELSE IF raw.v.t # "string"
                    THEN Throw(Error(<<"t","i","t","l","e",".","t","r","i","m"," ","i","s"," ","n","o","t"," ","a"," ","f","u","n","c","t","i","o","n">>))
                    ELSE LET title == CleanTitle(raw.v.s)
                             category == OrElse(Get(result, "category"), Text(GeneralCategory))
                             summary == OrElse(Get(result, "summary"),
                                               Text(Substring(transcript, 0, MaxSummaryLength)))
                         IN Ok([title |-> IF title = << >> THEN VideoTitle ELSE title,
                                category |-> category,
                                \* the length of a value that is no string or array is undefined
                                summary |-> IF IsText(summary)
                                            THEN Text(CapSummary(summary.s))
                                            ELSE summary,
                                structuredContent |->
                                    StructuredContent(result, recipeData)])

\* The terminal fallback as it would be without .trim()
FallbackKeepsSpaces(transcript) ==
    LET first == Split(Substring(transcript, 0, TitleSourceLength), ".")[1]
        fallbackTitle == IF first = << >> THEN VideoTitle ELSE first
    IN [title |-> Substring(fallbackTitle, 0, MaxTitleLength),
        category |-> Text(GeneralCategory),
        summary |-> Text(Substring(transcript, 0, MaxSummaryLength)),
        structuredContent |->
            [type |-> Text(GeneralType), recipe |-> Undefined,
             workout |-> Undefined, tutorial |-> Undefined]]

\* Lines 622-632: the terminal fallback
FallbackAnalysis(transcript) ==
    LET first == Trim(Split(Substring(transcript, 0, TitleSourceLength), ".")[1])
        fallbackTitle == IF first = << >> THEN VideoTitle ELSE first
    IN [title |-> Substring(fallbackTitle, 0, MaxTitleLength),
        category |-> Text(GeneralCategory),
        summary |-> Text(Substring(transcript, 0, MaxSummaryLength)),
        structuredContent |->
            [type |-> Text(GeneralType), recipe |-> Undefined,
             workout |-> Undefined, tutorial |-> Undefined]]

(***************************************************************************)
(* videoAI.ts: the model fallback loop                                     *)
(***************************************************************************)

\* const models = ['gpt-4o-mini', 'gpt-4-turbo', 'gpt-3.5-turbo']
Models == << "gpt-4o-mini", "gpt-4-turbo", "gpt-3.5-turbo" >>

\* The catch block as it would be if it tried the next model after any error
AlwaysModelUnavailable(error) == TRUE

\* The catch block's test for "try the next model"
IsModelUnavailable(error) ==
    \/ Includes(error.message, <<"m","o","d","e","l">>)
    \/ error.status = 404
    \/ error.code = "model_not_found"

\* What the chat client's message content is to JSON.parse and to the
\* salvage by /\{[\s\S]*\}/:
\*   json    JSON text of the value
\*   fenced  text around a {...} span that is JSON text of the value
\*   broken  text whose {...} span is not JSON: JSON.parse throws the
\*           runtime's SyntaxError, whose message is syntaxError
\*   prose   text with no {...} span
\*   empty   null or "": the code parses '{}'
JsonContent(value) == [form |-> "json", value |-> value]

FencedContent(value) == [form |-> "fenced", value |-> value]

BrokenContent(syntaxError) == [form |-> "broken", syntaxError |-> syntaxError]

ProseContent == [form |-> "prose"]

EmptyContent == [form |-> "empty"]

ParseContent(content) ==
    CASE content.form = "json" -> Ok(content.value)
      [] content.form = "empty" -> Ok(Obj(NoProps))
      [] content.form = "fenced" -> Ok(content.value)
      [] content.form = "broken" -> Throw(Error(content.syntaxError))
      [] OTHER -> Throw(Error(MsgInvalidJson))

\* What one await of client.chat.completions.create ends with
Resolved(content) == [kind |-> "resolved", content |-> content]

Rejected(error) == [kind |-> "rejected", error |-> error]

NoChoice == [kind |-> "nochoice"]

\* The body of the try block after the await: the analysis returned, or the
\* error the catch block receives.
Attempt(outcome, transcript) ==
    IF outcome.kind = "rejected" THEN Throw(outcome.error)
    ELSE IF outcome.kind = "nochoice" THEN Throw(Error(<<"C","a","n","n","o","t"," ","r","e","a","d"," ","p","r","o","p","e","r","t","i","e","s"," ","o","f"," ","u","n","d","e","f","i","n","e","d"," ","(","r","e","a","d","i","n","g"," ","'","m","e","s","s","a","g","e","'",")">>))
    ELSE LET parsed == ParseContent(outcome.content)
         IN IF parsed.ok THEN PostParse(parsed.v, transcript) ELSE parsed

(***************************************************************************)
(* routes.ts: cleanVideoTitle and the error messages the handler sorts     *)
(***************************************************************************)

IsWordChar(c) ==
    \/ IsDigit(c)
    \/ c = "_"
    \/ \E k \in 1..26 : c = LowerLetters[k] \/ c = UpperLetters[k]

\* s.replace(/#\w+/g, ''): a "#" before a word character goes, and the run
\* of word characters after it.
RemoveHashtags(s) ==
    LET opens(k) == s[k] = "#" /\ k < Len(s) /\ IsWordChar(s[k + 1])
        inTag(k) == \E h \in 1..(k - 1) : opens(h) /\ \A j \in (h + 1)..k : IsWordChar(s[j])
        kept == SelectSeq(Positions(s), LAMBDA k : ~opens(k) /\ ~inTag(k))
    IN [j \in 1..Len(kept) |-> s[kept[j]]]

\* s.replace(/^[^:]+:\s*/i, '')
RemoveColonPrefix(s) ==
    IF \E k \in 2..Len(s) : s[k] = ":" /\ \A j \in 1..(k - 1) : s[j] # ":"
    THEN LET p == CHOOSE k \in 2..Len(s) : s[k] = ":" /\ \A j \in 1..(k - 1) : s[j] # ":"
             rest == SliceFrom(s, p)
         IN IF \A k \in 1..Len(rest) : IsSpace(rest[k])
            THEN << >>
            ELSE SliceFrom(rest, (CHOOSE k \in 1..Len(rest) :
                                     ~IsSpace(rest[k]) /\ \A j \in 1..(k - 1) : IsSpace(rest[j])) - 1)
    ELSE s

IsQuote(c) == c \in {"\"", "'"}

\* s.replace(/^["']|["']$/g, '')
RemoveOuterQuotes(s) ==
    LET a == IF Len(s) > 0 /\ IsQuote(s[1]) THEN Tail(s) ELSE s
    IN IF Len(a) > 0 /\ IsQuote(a[Len(a)]) THEN SubSeq(a, 1, Len(a) - 1) ELSE a

\* s.lastIndexOf(' '), -1 when s has no space
LastIndexOfSpace(s) ==
    IF \A k \in 1..Len(s) : s[k] # " " THEN -1
    ELSE (CHOOSE k \in 1..Len(s) : s[k] = " " /\ \A j \in (k + 1)..Len(s) : s[j] # " ") - 1

\* const maxLength = 100 and maxLength * 0.7
MaxVideoTitleLength == 100

WordBoundaryFloor == 70

cleanVideoTitle(rawTitle) ==
    IF rawTitle = << >> THEN << >>
    ELSE LET c1 == Trim(RemoveHashtags(rawTitle))
             c2 == Trim(RemoveColonPrefix(c1))
             c3 == Trim(RemoveOuterQuotes(c2))
             c4 == Trim(CollapseWhitespace(c3))
             cut == Substring(c4, 0, MaxVideoTitleLength)
             c5 == IF Len(c4) > MaxVideoTitleLength
                   THEN Trim(IF LastIndexOfSpace(cut) > WordBoundaryFloor
                             THEN Substring(cut, 0, LastIndexOfSpace(cut))
                             ELSE cut) \o <<".",".",".">>
                   ELSE c4
         IN IF c5 = << >> THEN VideoTitle ELSE c5

MsgUnsupportedPlatform == <<"U","n","s","u","p","p","o","r","t","e","d"," ","v","i","d","e","o"," ","p","l","a","t","f","o","r","m",":"," ">>

MsgExtractAudio == <<"F","a","i","l","e","d"," ","t","o"," ","e","x","t","r","a","c","t"," ","a","u","d","i","o",":"," ">>

MsgTranscribeAudio == <<"F","a","i","l","e","d"," ","t","o"," ","t","r","a","n","s","c","r","i","b","e"," ","a","u","d","i","o",":"," ">>

VideoFrom == <<"V","i","d","e","o"," ","f","r","o","m"," ">>

\* The response of the handler's catch block for a thrown error
ErrorResponse(error) ==
    IF Includes(error.message, <<"y","t","-","d","l","p">>) \/ Includes(error.message, <<"e","x","t","r","a","c","t">>)
    THEN [status |-> 500, error |-> "Failed to extract audio from video", detail |-> << >>]
    ELSE IF Includes(error.message, <<"W","h","i","s","p","e","r">>) \/ Includes(error.message, <<"t","r","a","n","s","c","r","i","b","e">>)
    THEN [status |-> 500, error |-> "Failed to transcribe audio", detail |-> << >>]
    ELSE IF Includes(error.message, <<"q","u","o","t","a">>) \/ Includes(error.message, <<"b","i","l","l","i","n","g">>)
    THEN [status |-> 500, error |-> "OpenAI quota exceeded", detail |-> << >>]
    ELSE [status |-> 500, error |-> "message", detail |-> error.message]

(***************************************************************************)
(* The state                                                               *)
(***************************************************************************)

VARIABLES
    now,        \* Date.now()
    apiKey,     \* process.env.OPENAI_API_KEY is set
    fs,         \* the files of os.tmpdir(): name -> [by, data]
    items,      \* MemStorage.items: id -> item
    rq,         \* the locals of every request (or direct processVideo call)
    users,      \* MemStorage.users: key -> user
    userByEmail, \* MemStorage.userByEmail: email -> key of users
    nodeEnv,    \* process.env.NODE_ENV
    openai,     \* ai.ts: the client, or null
    initializationAttempted,    \* ai.ts: initializeOpenAI has run
    call        \* the call that returned last: its name, arguments and result

vars == << now, apiKey, fs, items, rq, users, userByEmail, nodeEnv, openai, initializationAttempted, call >>

\* The two requests in flight
Requests == {"r1", "r2"}

\* Date.now() goes up to MaxClock.
MaxClock == 2

\* The external tool writes at most so many files in one run.
MaxToolWrites == 1

\* req.user.id, set by jwtAuthMiddleware
UserOf(i) == IF i = "r1" THEN "user-1" ELSE "user-2"

NoFile == FileName("none", 0, "none")

NoError == [message |-> << >>, status |-> 0, code |-> "none"]

NoResponse == [status |-> 0, error |-> "none", detail |-> << >>]

NoId == [ts |-> 0, rnd |-> "none"]

\* The locals of a request before it starts.  by-value fields carry the
\* names of the code: outputFile and captionFile hold the Date.now() of the
\* name, tempFile is transcribeAudio's file, pv tells how processVideo ended
\* (none, returned, raised).  stages lists the pipeline stages entered,
\* transcriptSource the label of the transcript in the user prompt,
\* tempKept that unlinkSync(tempFile) threw for a file that is there,
\* chatLog how each chat call ended, touched whose temporary files the
\* request selected, read or deleted.
Idle(i) ==
    [id |-> i, pc |-> "idle", entry |-> "none", url |-> << >>,
     outputFile |-> 0, captionFile |-> 0, writes |-> 0,
     captions |-> Undefined, actualFile |-> NoFile, audioFormat |-> "m4a",
     tempFile |-> NoFile, pv |-> "none", error |-> NoError, transcript |-> << >>,
     attempt |-> 0, chatLog |-> << >>, analysed |-> FALSE, aiAnalysis |-> Undefined,
     itemId |-> NoId, response |-> NoResponse, stages |-> << >>, touched |-> {},
     tempKept |-> FALSE, transcriptSource |-> << >>]

\* writeFileSync, or the tool writing a file
Put(f, k, v) == [x \in (DOMAIN f) \cup {k} |-> IF x = k THEN v ELSE f[x]]

\* unlinkSync of every file of the set that is there (a failure is swallowed)
Unlink(fsys, names) == [x \in (DOMAIN fsys) \ names |-> fsys[x]]

\* who wrote the files of the set that are there
Owners(fsys, names) == {fsys[f].by : f \in names \cap DOMAIN fsys}

\* What the external tool may write: subtitle files for the caption probe,
\* audio files (or a partial download) for the audio extraction.
CaptionOutputs ==
    << [ext |-> "vtt", data |-> VttDoc(MinCaptionLength + 1)],
       [ext |-> "vtt", data |-> VttDoc(MinCaptionLength)],
       [ext |-> "srt", data |-> SrtDoc(MinCaptionLength + 1)],
       [ext |-> "ttml", data |-> TtmlDoc] >>

AudioOutputs == << "m4a", "part" >>

\* The extensions processVideo looks for, in its order
PossibleExts == << "m4a", "webm", "opus", "ogg", "mp3" >>

\* ext === 'webm' ? 'webm' : ext === 'opus' ? 'opus' : ext === 'ogg' ? 'ogg' : 'm4a'
FormatOf(ext) == IF ext \in {"webm", "opus", "ogg"} THEN ext ELSE "m4a"

\* Transcripts: a period after a space, nothing but spaces before the
\* first period, no period in the first 50 characters.
Transcripts ==
    << Pad(<<"W","a","i","t"," ","f","o","r"," ","i","t"," ",".",".","."," ","t","h","e","n"," ","f","o","l","d"," ","t","h","e"," ","d","o","u","g","h"," ","t","w","i","c","e"," ","a","n","d"," ","l","e","t"," ","i","t"," ","r","e","s","t","."," ">>, 230),
       Pad(<<" "," ","."," ","O","k","a","y"," ","s","o"," ","t","o","d","a","y"," ","w","e"," ","a","r","e"," ","m","a","k","i","n","g"," ","b","r","e","a","d"," ","a","t"," ","h","o","m","e"," ","w","i","t","h"," ">>, 60),
       <<"M","i","x"," ","2"," ","c","u","p","s"," ","f","l","o","u","r"," ","a","n","d"," ","a","d","d"," ","t","h","e"," ","e","g","g","s"," ","t","h","e","n"," ","w","h","i","s","k"," ","i","t"," ","a","l","l"," ","t","o","g","e","t","h","e","r"," ","w","e","l","l">> >>

\* What the transcription client may answer
WhisperOutcomes ==
    << Ok(Transcripts[1]), Ok(Transcripts[2]), Ok(<< >>), Ok(<< " ", "\n" >>),
       Throw(Error(<<"C","o","n","n","e","c","t","i","o","n"," ","e","r","r","o","r",".">>)), Throw(Error(<<"Y","o","u"," ","e","x","c","e","e","d","e","d"," ","y","o","u","r"," ","c","u","r","r","e","n","t"," ","q","u","o","t","a">>)) >>

\* What extractMetadata(url) may resolve to; it never rejects.
MetadataOutcomes(url) ==
    << [title |-> Hostname(url), imageUrl |-> Null],
       [title |-> <<"C","h","e","f"," ","o","n"," ","T","i","k","T","o","k",":"," ","\"","B","e","s","t"," ","#","p","a","s","t","a"," ","e","v","e","r","\"">>, imageUrl |-> Text(<<"h","t","t","p","s",":","/","/","c","d","n",".","e","x","a","m","p","l","e","/","p",".","j","p","g">>)] >>

(***************************************************************************)
(* routes.ts and video.ts: what follows the end of processVideo            *)
(***************************************************************************)

\* The handler as it would be if it ran the caption attempt again before
\* transformVideoContent
TransformEntryRetry(r, key) ==
    LET r1 == [r EXCEPT !.stages = Append(Append(@, "captions"), "ai")]
    IN IF ~key
       THEN [r1 EXCEPT !.pc = "done", !.response = ErrorResponse(Error(MsgApiKeyNotSet))]
       ELSE [r1 EXCEPT !.pc = "chat", !.attempt = 1]

CaptionsLabel == <<"c","a","p","t","i","o","n","s","/","s","u","b","t","i","t","l","e","s"," ","(","h","i","g","h"," ","q","u","a","l","i","t","y",")">>

AudioLabel == <<"a","u","d","i","o"," ","t","r","a","n","s","c","r","i","p","t","i","o","n">>

\* Lines 459-460 of videoAI.ts: the source named in the user prompt
TranscriptSource(transcript) ==
    IF /\ ~Includes(transcript, <<"W","E","B","V","T","T">>)
       /\ ~Includes(transcript, <<"-","-",">">>)
       /\ Len(transcript) > 0
    THEN CaptionsLabel
    ELSE AudioLabel

\* transformVideoContent up to its first await: it throws without the key,
\* and the handler's catch block answers.
TransformEntry(r, key) ==
    LET r1 == [r EXCEPT !.stages = Append(@, "ai")]
    IN IF ~key
       THEN [r1 EXCEPT !.pc = "done", !.response = ErrorResponse(Error(MsgApiKeyNotSet))]
       ELSE [r1 EXCEPT !.pc = "chat", !.attempt = 1,
                       !.transcriptSource = TranscriptSource(r.transcript)]

\* The handler as it would be without its test of the transcript
ProcessVideoReturnsUnchecked(r, t, key) ==
    LET r1 == [r EXCEPT !.pv = "returned", !.transcript = t]
    IN IF r.entry = "direct" THEN [r1 EXCEPT !.pc = "done"] ELSE TransformEntry(r1, key)

\* processVideo returns the transcript t: a direct call ends, the handler
\* checks the transcript and goes on to transformVideoContent.
ProcessVideoReturns(r, t, key) ==
    LET r1 == [r EXCEPT !.pv = "returned", !.transcript = t]
    IN IF r.entry = "direct"
       THEN [r1 EXCEPT !.pc = "done"]
       ELSE IF t = << >> \/ Len(Trim(t)) = 0
       THEN [r1 EXCEPT !.pc = "done",
                       !.response = [status |-> 500,
                                     error |-> "Failed to transcribe video audio",
                                     detail |-> << >>]]
       ELSE TransformEntry(r1, key)

\* processVideo as it would be if it swallowed the error and returned ""
ProcessVideoSwallows(r, e) ==
    [r EXCEPT !.pv = "returned", !.pc = "done"]

\* processVideo throws e
ProcessVideoRaises(r, e) ==
    LET r1 == [r EXCEPT !.pv = "raised", !.error = e, !.pc = "done"]
    IN IF r.entry = "direct" THEN r1 ELSE [r1 EXCEPT !.response = ErrorResponse(e)]

\* processVideo's catch block: it deletes what its filter finds in the temp
\* directory, then rethrows.
AudioCleanup(fsys, r) ==
    {f \in DOMAIN fsys : IsAudioCandidate(f, AudioTimestamp(r.outputFile))}

FailProcessVideo(fsys, r, e) ==
    [fs |-> Unlink(fsys, AudioCleanup(fsys, r)),
     r |-> ProcessVideoRaises(
               [r EXCEPT !.touched = @ \cup Owners(fsys, AudioCleanup(fsys, r))], e)]

\* processVideo, lines 935-942, and extractCaptions up to its first await
EnterProcessVideo(r, t1, t2) ==
    [r EXCEPT !.pc = "capProbe", !.pv = "running", !.outputFile = t1,
              !.captionFile = t2, !.stages = Append(@, "captions")]

\* processVideo as it would be if it never returned the captions
AfterCaptionsAlwaysAudio(r, key) ==
    [r EXCEPT !.pc = "audProbe", !.writes = 0, !.stages = Append(@, "audio")]

\* processVideo after extractCaptions has resolved (line 943)
AfterCaptions(r, key) ==
    IF Truthy(r.captions) /\ Len(r.captions.s) > MinCaptionLength
    THEN ProcessVideoReturns(r, r.captions.s, key)
    ELSE [r EXCEPT !.pc = "audProbe", !.writes = 0, !.stages = Append(@, "audio")]

\* extractCaptions' listing of the temp directory
CaptionFiles(fsys, r) ==
    {f \in DOMAIN fsys : IsCaptionCandidate(f, CaptionTimestamp(r.captionFile))}

\* files.find(vtt or srt) || files[0]: readdirSync gives the names in the
\* order of the file system, so any of the preferred files may be the first.
SubtitleChoices(files) ==
    IF \E f \in files : f.ext \in ParsedSubtitleExts
    THEN {f \in files : f.ext \in ParsedSubtitleExts}
    ELSE files

\* extractCaptions from the end of the tool's run to its return.  ok: the
\* command succeeded within its timeout; f: the subtitle file found (NoFile
\* when the listing is empty); readOk: readFileSync succeeded.
ExtractCaptionsEnds(fsys, r, ok, f, readOk) ==
    LET files == CaptionFiles(fsys, r)
        picked == [r EXCEPT !.touched = @ \cup Owners(fsys, {f})]
        captionText == IF f.ext = "vtt" THEN ParseVtt(fsys[f].data)
                       ELSE ParseSrt(fsys[f].data)
    IN IF ~ok \/ files = {}
       THEN [fs |-> fsys, r |-> [r EXCEPT !.captions = Null]]
       ELSE IF ~readOk
       THEN [fs |-> fsys, r |-> [picked EXCEPT !.captions = Null]]
       ELSE IF f.ext \in ParsedSubtitleExts
       THEN [fs |-> Unlink(fsys, files),
             r |-> [picked EXCEPT !.captions = CaptionResult(captionText),
                                  !.touched = @ \cup Owners(fsys, files)]]
       ELSE [fs |-> fsys, r |-> [picked EXCEPT !.captions = Null]]

\* processVideo's search for the tool's output: the five names in order,
\* then any file the filter finds.
AudioChoices(fsys, r) ==
    LET found == {k \in 1..Len(PossibleExts) :
                      FileName("audio", r.outputFile, PossibleExts[k]) \in DOMAIN fsys}
        first == CHOOSE k \in found : \A j \in found : k <= j
    IN IF found # {}
       THEN {FileName("audio", r.outputFile, PossibleExts[first])}
       ELSE AudioCleanup(fsys, r)

\* processVideo from the end of the audio extraction to the await inside
\* transcribeAudio.  ok: the command succeeded within its timeout; f: the
\* file found; readOk, writeOk: readFileSync and writeFileSync succeeded;
\* t: Date.now() in transcribeAudio.
AudioExtractionEnds(fsys, r, ok, f, readOk, writeOk, key, t) ==
    LET picked == [r EXCEPT !.actualFile = f, !.audioFormat = FormatOf(f.ext),
                            !.touched = @ \cup Owners(fsys, {f})]
        tempFile == FileName("whisper", t, FormatOf(f.ext))
    IN IF ~ok
       THEN FailProcessVideo(fsys, r, Error(MsgExtractAudio \o <<"C","o","m","m","a","n","d"," ","f","a","i","l","e","d",":"," ","y","t","-","d","l","p">>))
       ELSE IF AudioChoices(fsys, r) = {}
       THEN FailProcessVideo(fsys, r, Error(MsgExtractAudio \o <<"A","u","d","i","o"," ","f","i","l","e"," ","n","o","t"," ","f","o","u","n","d"," ","a","f","t","e","r"," ","e","x","t","r","a","c","t","i","o","n">>))
       ELSE IF ~readOk
       THEN FailProcessVideo(fsys, picked, Error(<<"E","A","C","C","E","S",":"," ","p","e","r","m","i","s","s","i","o","n"," ","d","e","n","i","e","d",","," ","o","p","e","n">>))
       ELSE IF ~key
       THEN FailProcessVideo(fsys, picked, Error(MsgApiKeyNotSet))
       ELSE IF ~writeOk
       THEN FailProcessVideo(Unlink(fsys, {tempFile}),
                [picked EXCEPT !.touched = @ \cup Owners(fsys, {tempFile})],
                Error(MsgTranscribeAudio \o <<"E","N","O","S","P","C",":"," ","n","o"," ","s","p","a","c","e"," ","l","e","f","t"," ","o","n"," ","d","e","v","i","c","e",","," ","w","r","i","t","e">>))
       ELSE [fs |-> Put(fsys, tempFile, [by |-> r.id, data |-> fsys[f].data]),
             r |-> [picked EXCEPT !.tempFile = tempFile, !.pc = "whisper"]]

\* transcribeAudio and processVideo after the transcription client answers
TranscriptionEnds(fsys, r, outcome, key) ==
    LET fs1 == Unlink(fsys, {r.tempFile})
        r1 == [r EXCEPT !.touched = @ \cup Owners(fsys, {r.tempFile})]
    IN IF outcome.ok
       THEN [fs |-> Unlink(fs1, {r.actualFile}),
             r |-> ProcessVideoReturns(
                       [r1 EXCEPT !.touched = @ \cup Owners(fs1, {r.actualFile})],
                       outcome.v, key)]
       ELSE FailProcessVideo(fs1, r1,
                Error(MsgTranscribeAudio \o outcome.error.message))

\* transcribeAudio as it would be if an error of unlinkSync(tempFile) were
\* thrown on
TranscriptionEndsUnlinkThrows(fsys, r, outcome, key, unlinkOk) ==
    IF unlinkOk \/ r.tempFile \notin DOMAIN fsys
    THEN TranscriptionEnds(fsys, r, outcome, key)
    ELSE FailProcessVideo(fsys, [r EXCEPT !.tempKept = TRUE],
             Error(MsgTranscribeAudio \o <<"E","P","E","R","M",":"," ","o","p","e","r","a","t","i","o","n"," ","n","o","t"," ","p","e","r","m","i","t","t","e","d",","," ","u","n","l","i","n","k">>))

\* The same with an unlinkSync(tempFile) that may throw for a file that is
\* there (lines 744-748 and 753-757): the error is swallowed, the file
\* stays, and everything else goes on as it does after a deletion.
TranscriptionEndsWith(fsys, r, outcome, key, unlinkOk) ==
    LET out == TranscriptionEnds(fsys, r, outcome, key)
    IN IF unlinkOk \/ r.tempFile \notin DOMAIN fsys
       THEN out
       ELSE [fs |-> Put(out.fs, r.tempFile, fsys[r.tempFile]),
             r |-> [out.r EXCEPT !.tempKept = TRUE]]

(***************************************************************************)
(* videoAI.ts and routes.ts: the analysis and the stored item              *)
(***************************************************************************)

\* What the chat client may answer.  The message of a SyntaxError of
\* JSON.parse quotes the text near the error, so it may hold the word "model".
ChatOutcomes ==
    \* {"title":"Easy Pancakes","category":"Recipe","summary":"Fluffy pancakes.","type":"recipe","recipe":{"name":"Pancakes"}}
    << Resolved(JsonContent(Object([title |-> Text(<<"E","a","s","y"," ","P","a","n","c","a","k","e","s">>), category |-> Text(<<"R","e","c","i","p","e">>), summary |-> Text(<<"F","l","u","f","f","y"," ","p","a","n","c","a","k","e","s",".">>), type |-> Text(<<"r","e","c","i","p","e">>), recipe |-> Object([name |-> Text(<<"P","a","n","c","a","k","e","s">>)])]))),
    \* {"title":"pasta night","type":"general","recipe":{"name":"Pasta"}}
       Resolved(JsonContent(Object([title |-> Text(<<"p","a","s","t","a"," ","n","i","g","h","t">>), type |-> Text(GeneralType), recipe |-> Object([name |-> Text(<<"P","a","s","t","a">>)])]))),
    \* the JSON text null
       Resolved(JsonContent(Null)),
    \* text with no {...} span
       Resolved(ProseContent),
    \* the model does not exist
       Rejected(ApiError(<<"T","h","e"," ","m","o","d","e","l"," ","d","o","e","s"," ","n","o","t"," ","e","x","i","s","t">>, 404, "model_not_found")),
    \* the rate limit is reached
       Rejected(Error(<<"R","a","t","e"," ","l","i","m","i","t"," ","r","e","a","c","h","e","d">>)),
    \* a fenced {"type":"workout","category":"Fitness","workout":{"name":"Leg Day"}}
       Resolved(FencedContent(Object([type |-> Text(<<"w","o","r","k","o","u","t">>), category |-> Text(<<"F","i","t","n","e","s","s">>), workout |-> Object([name |-> Text(<<"L","e","g"," ","D","a","y">>)])]))),
    \* {"type":"recipe","summary":"Pasta, then abs.","recipe":{"name":"Pasta","servings":"4 servings"},"workout":{"name":"Leg Day"}}
       Resolved(JsonContent(Object([type |-> Text(<<"r","e","c","i","p","e">>), summary |-> Text(<<"P","a","s","t","a",","," ","t","h","e","n"," ","a","b","s",".">>), recipe |-> Object([name |-> Text(<<"P","a","s","t","a">>), servings |-> Text(<<"4"," ","s","e","r","v","i","n","g","s">>)]), workout |-> Object([name |-> Text(<<"L","e","g"," ","D","a","y">>)])]))),
    \* {"type":"recipe","recipe":"Pasta"}
       Resolved(JsonContent(Object([type |-> Text(<<"r","e","c","i","p","e">>), recipe |-> Text(<<"P","a","s","t","a">>)]))),
    \* no content
       Resolved(EmptyContent),
    \* a {...} span that is not JSON; the SyntaxError does not quote it
       Resolved(BrokenContent(<<"U","n","e","x","p","e","c","t","e","d"," ","t","o","k","e","n"," ","}"," ","i","n"," ","J","S","O","N"," ","a","t"," ","p","o","s","i","t","i","o","n"," ","9">>)),
    \* a {...} span that is not JSON; the SyntaxError quotes the text {model: 1}
       Resolved(BrokenContent(<<"U","n","e","x","p","e","c","t","e","d"," ","t","o","k","e","n"," ","'","m","'",","," ","\"","{","m","o","d","e","l",":"," ","1","}","\""," ","i","s"," ","n","o","t"," ","v","a","l","i","d"," ","J","S","O","N">>)),
    \* a response with no choice
       NoChoice,
    \* {"type":"recipe","recipe":{"name":"  ","ingredients":"flour, eggs","instructions":"mix","servings":"serves 4 people"}}
       Resolved(JsonContent(Object([type |-> Text(<<"r","e","c","i","p","e">>), recipe |-> Object([name |-> Text(<<" "," ">>), ingredients |-> Text(<<"f","l","o","u","r",","," ","e","g","g","s">>), instructions |-> Text(<<"m","i","x">>), servings |-> Text(<<"s","e","r","v","e","s"," ","4"," ","p","e","o","p","l","e">>)])]))),
    \* {"type":"recipe","recipe":{"name":"Soup","ingredients":[],"instructions":[],"servings":"a few"}}
       Resolved(JsonContent(Object([type |-> Text(<<"r","e","c","i","p","e">>), recipe |-> Object([name |-> Text(<<"S","o","u","p">>), ingredients |-> Array(<< >>), instructions |-> Array(<< >>), servings |-> Text(<<"a"," ","f","e","w">>)])]))),
    \* {"type":"recipe","recipe":{"name":"Soup","servings":""}}
       Resolved(JsonContent(Object([type |-> Text(<<"r","e","c","i","p","e">>), recipe |-> Object([name |-> Text(<<"S","o","u","p">>), servings |-> Text(<< >>)])]))),
    \* {"title":"Meal Prep","category":"quick & easy meals","type":"general"}
       Resolved(JsonContent(Object([title |-> Text(<<"M","e","a","l"," ","P","r","e","p">>), category |-> Text(<<"q","u","i","c","k"," ","&"," ","e","a","s","y"," ","m","e","a","l","s">>), type |-> Text(GeneralType)]))) >>

\* The answers taken in the whole pipeline: the first six
PipelineChatOutcomes == SubSeq(ChatOutcomes, 1, 6)

\* What is kept of one turn of the loop: the model asked, what the client
\* answered, whether the answer was parsed (by JSON.parse or by the salvage), and the error the
\* catch block received
LogEntry(r, outcome, error) ==
    [ok |-> error = NoError, error |-> error, model |-> Models[r.attempt],
     answer |-> outcome,
     parsed |-> outcome.kind = "resolved" /\ ParseContent(outcome.content).ok]

\* The loop as it would be if an error that is not model-unavailable were
\* thrown on to the handler
ChatEndsFatal(r, outcome) ==
    LET res == Attempt(outcome, r.transcript)
        next == [r EXCEPT !.pc = "metadata", !.analysed = TRUE,
                          !.stages = Append(@, "persist")]
    IN IF res.ok
       THEN [next EXCEPT !.chatLog = Append(@, LogEntry(r, outcome, NoError)),
                         !.aiAnalysis = res.v]
       ELSE IF IsModelUnavailable(res.error) /\ r.attempt < Len(Models)
       THEN [r EXCEPT !.chatLog = Append(@, LogEntry(r, outcome, res.error)),
                      !.attempt = @ + 1]
       ELSE IF IsModelUnavailable(res.error)
       THEN [next EXCEPT !.chatLog = Append(@, LogEntry(r, outcome, res.error)),
                         !.aiAnalysis = FallbackAnalysis(r.transcript)]
       ELSE [r EXCEPT !.chatLog = Append(@, LogEntry(r, outcome, res.error)),
                      !.pc = "done", !.response = ErrorResponse(res.error)]

\* The loop of transformVideoContent after one await of the chat client:
\* return the analysis, try the next model, or leave the loop for the
\* fallback.
ChatEnds(r, outcome) ==
    LET res == Attempt(outcome, r.transcript)
        next == [r EXCEPT !.pc = "metadata", !.analysed = TRUE,
                          !.stages = Append(@, "persist")]
    IN IF res.ok
       THEN [next EXCEPT !.chatLog = Append(@, LogEntry(r, outcome, NoError)),
                         !.aiAnalysis = res.v]
       ELSE IF IsModelUnavailable(res.error) /\ r.attempt < Len(Models)
       THEN [r EXCEPT !.chatLog = Append(@, LogEntry(r, outcome, res.error)),
                      !.attempt = @ + 1]
       ELSE [next EXCEPT !.chatLog = Append(@, LogEntry(r, outcome, res.error)),
                         !.aiAnalysis = FallbackAnalysis(r.transcript)]

\* The handler's choice of the item's title (lines 288-299)
ItemTitle(aiTitle, platformType, metadata) ==
    IF (aiTitle = << >> \/ aiTitle = VideoTitle \/ Len(aiTitle) < 5)
       /\ metadata.title # << >>
    THEN cleanVideoTitle(metadata.title)
    ELSE IF aiTitle # << >> THEN aiTitle ELSE VideoFrom \o platformType

\* storage.createItem: the id is generated from the clock and a random part
NewItem(r, metadata, t, rnd) ==
    [id |-> [ts |-> t, rnd |-> rnd],
     userId |-> UserOf(r.id),
     type |-> "video",
     title |-> ItemTitle(r.aiAnalysis.title, detectVideoPlatform(r.url).type, metadata),
     summary |-> r.aiAnalysis.summary,
     category |-> r.aiAnalysis.category,
     tags |-> << >>,
     url |-> r.url,
     imageUrl |-> OrElse(metadata.imageUrl, Undefined),
     videoData |-> [platform |-> detectVideoPlatform(r.url).type,
                    transcript |-> r.transcript,
                    structuredContent |-> r.aiAnalysis.structuredContent],
     createdAt |-> t]

(***************************************************************************)
(* The actions: each is the code between two awaits                        *)
(***************************************************************************)

\* Math.random().toString(36).substr(2, 9)
RandomParts == {"k3f9", "x07q"}

\* No call has returned yet
NoCall == [op |-> "none"]

\* MemStorage with the users of the requests, as the logins leave it
Registered ==
    /\ users = [k \in {UserOf(i) : i \in Requests} |-> [id |-> k, email |-> k \o "@example.com"]]
    /\ userByEmail = [e \in {UserOf(i) \o "@example.com" : i \in Requests} |->
                        CHOOSE k \in {UserOf(i) : i \in Requests} : k \o "@example.com" = e]
    /\ nodeEnv = "production"
    /\ openai = Null
    /\ initializationAttempted = FALSE
    /\ call = NoCall

Init ==
    /\ now = 1
    /\ apiKey \in BOOLEAN
    /\ fs = << >>
    /\ items = << >>
    /\ rq = [i \in Requests |-> Idle(i)]
    /\ Registered

BadRequest(r, message) ==
    [r EXCEPT !.pc = "done",
              !.response = [status |-> 400, error |-> message, detail |-> << >>]]

\* Date.now() of extractCaptions, read right after processVideo's
Later(t) == {t, Min(t + 1, MaxClock)}

\* POST /save-video with body.url = u, up to the first await.  processVideo
\* classifies the url again at its entry, in this same step and with the
\* same result; stages records the classification once.
SaveVideo(i, u) ==
    /\ rq[i].pc = "idle"
    /\ LET r == [rq[i] EXCEPT !.entry = "route", !.url = u]
           classified == [r EXCEPT !.stages = Append(@, "classify")]
       IN IF u = << >>
          THEN /\ rq' = [rq EXCEPT ![i] = BadRequest(r, "URL is required")]
               /\ now' = now
          ELSE IF ~IsValidUrl(u)
          THEN /\ rq' = [rq EXCEPT ![i] = BadRequest(r, "Invalid URL format")]
               /\ now' = now
          ELSE IF ~detectVideoPlatform(u).supported
          THEN /\ rq' = [rq EXCEPT ![i] =
                            BadRequest(classified, "Unsupported video platform")]
               /\ now' = now
          ELSE \E t \in Later(now) :
                  /\ rq' = [rq EXCEPT ![i] = EnterProcessVideo(classified, now, t)]
                  /\ now' = t
    /\ UNCHANGED << apiKey, fs, items, users, userByEmail, nodeEnv, openai, initializationAttempted, call >>

\* processVideo(u) called on its own, up to the first await
ProcessVideo(i, u) ==
    /\ rq[i].pc = "idle"
    /\ LET r == [rq[i] EXCEPT !.entry = "direct", !.url = u,
                              !.stages = Append(@, "classify")]
       IN IF ~detectVideoPlatform(u).supported
          THEN /\ rq' = [rq EXCEPT ![i] =
                            ProcessVideoRaises(r, Error(MsgUnsupportedPlatform \o u))]
               /\ now' = now
          ELSE \E t \in Later(now) :
                  /\ rq' = [rq EXCEPT ![i] = EnterProcessVideo(r, now, t)]
                  /\ now' = t
    /\ UNCHANGED << apiKey, fs, items, users, userByEmail, nodeEnv, openai, initializationAttempted, call >>

\* extractCaptions: the probes for the tool are over, the tool starts
CaptionProbeDone(i) ==
    /\ rq[i].pc = "capProbe"
    /\ rq' = [rq EXCEPT ![i].pc = "capTool"]
    /\ UNCHANGED << now, apiKey, fs, items, users, userByEmail, nodeEnv, openai, initializationAttempted, call >>

\* The tool, run for subtitles, writes a file
ToolWritesSubtitle(i) ==
    /\ rq[i].pc = "capTool"
    /\ rq[i].writes < MaxToolWrites
    /\ \E k \in 1..Len(CaptionOutputs) :
          fs' = Put(fs, FileName("captions", rq[i].captionFile, CaptionOutputs[k].ext),
                    [by |-> i, data |-> CaptionOutputs[k].data])
    /\ rq' = [rq EXCEPT ![i].writes = @ + 1]
    /\ UNCHANGED << now, apiKey, items, users, userByEmail, nodeEnv, openai, initializationAttempted, call >>

\* extractCaptions after the tool's run, and processVideo up to its next
\* await (the return of the captions, or the start of the audio extraction)
CaptionToolExits(i) ==
    /\ rq[i].pc = "capTool"
    /\ \E ok \in BOOLEAN, readOk \in BOOLEAN :
       \E f \in IF ok /\ CaptionFiles(fs, rq[i]) # {}
                THEN SubtitleChoices(CaptionFiles(fs, rq[i])) ELSE {NoFile} :
          LET out == ExtractCaptionsEnds(fs, rq[i], ok, f, readOk)
          IN /\ fs' = out.fs
             /\ rq' = [rq EXCEPT ![i] = AfterCaptions(out.r, apiKey)]
    /\ UNCHANGED << now, apiKey, items, users, userByEmail, nodeEnv, openai, initializationAttempted, call >>

\* processVideo: the probes for the tool are over, the tool starts
AudioProbeDone(i) ==
    /\ rq[i].pc = "audProbe"
    /\ rq' = [rq EXCEPT ![i].pc = "audTool"]
    /\ UNCHANGED << now, apiKey, fs, items, users, userByEmail, nodeEnv, openai, initializationAttempted, call >>

\* The tool, run for the audio, writes a file
ToolWritesAudio(i) ==
    /\ rq[i].pc = "audTool"
    /\ rq[i].writes < MaxToolWrites
    /\ \E k \in 1..Len(AudioOutputs) :
          fs' = Put(fs, FileName("audio", rq[i].outputFile, AudioOutputs[k]),
                    [by |-> i, data |-> << "~" >>])
    /\ rq' = [rq EXCEPT ![i].writes = @ + 1]
    /\ UNCHANGED << now, apiKey, items, users, userByEmail, nodeEnv, openai, initializationAttempted, call >>

\* processVideo after the tool's run, up to the await of the transcription
AudioToolExits(i) ==
    /\ rq[i].pc = "audTool"
    /\ \E ok \in BOOLEAN, readOk \in BOOLEAN, writeOk \in BOOLEAN :
       \E f \in IF ok /\ AudioChoices(fs, rq[i]) # {}
                THEN AudioChoices(fs, rq[i]) ELSE {NoFile} :
          LET out == AudioExtractionEnds(fs, rq[i], ok, f, readOk, writeOk, apiKey, now)
          IN /\ fs' = out.fs
             /\ rq' = [rq EXCEPT ![i] = out.r]
    /\ UNCHANGED << now, apiKey, items, users, userByEmail, nodeEnv, openai, initializationAttempted, call >>

\* The transcription client answers
WhisperReturns(i, outcomes) ==
    /\ rq[i].pc = "whisper"
    /\ \E k \in 1..Len(outcomes) :
          LET out == TranscriptionEnds(fs, rq[i], outcomes[k], apiKey)
          IN /\ fs' = out.fs
             /\ rq' = [rq EXCEPT ![i] = out.r]
    /\ UNCHANGED << now, apiKey, items, users, userByEmail, nodeEnv, openai, initializationAttempted, call >>

\* The transcription client answers, and unlinkSync(tempFile) succeeds or
\* throws
WhisperSettles(i, outcomes) ==
    /\ rq[i].pc = "whisper"
    /\ \E k \in 1..Len(outcomes), unlinkOk \in BOOLEAN :
          LET out == TranscriptionEndsWith(fs, rq[i], outcomes[k], apiKey, unlinkOk)
          IN /\ fs' = out.fs
             /\ rq' = [rq EXCEPT ![i] = out.r]
    /\ UNCHANGED << now, apiKey, items, users, userByEmail, nodeEnv, openai, initializationAttempted, call >>

\* The chat client answers the call for Models[attempt]
ChatReturns(i, outcomes) ==
    /\ rq[i].pc = "chat"
    /\ \E k \in 1..Len(outcomes) :
          rq' = [rq EXCEPT ![i] = ChatEnds(rq[i], outcomes[k])]
    /\ UNCHANGED << now, apiKey, fs, items, users, userByEmail, nodeEnv, openai, initializationAttempted, call >>

\* extractMetadata resolves; the handler stores the item and answers
MetadataReturns(i) ==
    /\ rq[i].pc = "metadata"
    /\ \E k \in 1..2, rnd \in RandomParts :
          LET item == NewItem(rq[i], MetadataOutcomes(rq[i].url)[k], now, rnd)
          IN /\ items' = Put(items, item.id, item)
             /\ rq' = [rq EXCEPT ![i].pc = "done", ![i].itemId = item.id,
                                 ![i].response = [status |-> 200, error |-> "none",
                                                  detail |-> << >>]]
    /\ UNCHANGED << now, apiKey, fs, users, userByEmail, nodeEnv, openai, initializationAttempted, call >>

\* Time passes
Tick ==
    /\ now < MaxClock
    /\ now' = now + 1
    /\ UNCHANGED << apiKey, fs, items, rq, users, userByEmail, nodeEnv, openai, initializationAttempted, call >>

\* One request to POST /save-video, or one call of processVideo
Next ==
    \/ \E u \in Urls : SaveVideo("r1", u)
    \/ \E u \in Urls : ProcessVideo("r1", u)
    \/ CaptionProbeDone("r1")
    \/ ToolWritesSubtitle("r1")
    \/ CaptionToolExits("r1")
    \/ AudioProbeDone("r1")
    \/ ToolWritesAudio("r1")
    \/ AudioToolExits("r1")
    \/ WhisperReturns("r1", WhisperOutcomes)
    \/ ChatReturns("r1", PipelineChatOutcomes)
    \/ MetadataReturns("r1")
    \/ Tick

Spec == Init /\ [][Next]_vars

\* Two calls of processVideo in flight together
NextConcurrent ==
    \/ \E i \in Requests, u \in ({UrlTikTok, UrlInstagramPost}) : ProcessVideo(i, u)
    \/ \E i \in Requests : CaptionProbeDone(i)
    \/ \E i \in Requests : ToolWritesSubtitle(i)
    \/ \E i \in Requests : CaptionToolExits(i)
    \/ \E i \in Requests : AudioProbeDone(i)
    \/ \E i \in Requests : ToolWritesAudio(i)
    \/ \E i \in Requests : AudioToolExits(i)
    \/ \E i \in Requests : WhisperReturns(i, << WhisperOutcomes[1], WhisperOutcomes[5] >>)
    \/ Tick

SpecConcurrent == Init /\ [][NextConcurrent]_vars

\* One call of processVideo, with deletions of transcribeAudio's file that
\* may fail
NextTranscribe ==
    \/ \E u \in {UrlTikTok, UrlInstagramPost} : ProcessVideo("r1", u)
    \/ CaptionProbeDone("r1")
    \/ ToolWritesSubtitle("r1")
    \/ CaptionToolExits("r1")
    \/ AudioProbeDone("r1")
    \/ ToolWritesAudio("r1")
    \/ AudioToolExits("r1")
    \/ WhisperSettles("r1", WhisperOutcomes)
    \/ Tick

SpecTranscribe == Init /\ [][NextTranscribe]_vars

\* One call of processVideo, followed to its return.  Fairness is stated
\* for the awaits that something bounds: the caption run is killed after
\* 30 s (line 812) and the audio extraction after 120 s (line 995), and the
\* transcription request is ended by the client's own timeout.  The probes
\* for the tool, `which` run by execAsync with no options (lines 786 and
\* 963), have no timeout: nothing makes them end, and no fairness is stated
\* for them.
NextLive ==
    \/ \E u \in {UrlTikTok, UrlInstagramPost} : ProcessVideo("r1", u)
    \/ CaptionProbeDone("r1")
    \/ ToolWritesSubtitle("r1")
    \/ CaptionToolExits("r1")
    \/ AudioProbeDone("r1")
    \/ ToolWritesAudio("r1")
    \/ AudioToolExits("r1")
    \/ WhisperReturns("r1", << WhisperOutcomes[1], WhisperOutcomes[5] >>)
    \/ Tick

SpecLive ==
    /\ Init /\ [][NextLive]_vars
    /\ WF_vars(CaptionToolExits("r1"))
    /\ WF_vars(AudioToolExits("r1"))
    /\ WF_vars(WhisperReturns("r1", << WhisperOutcomes[1], WhisperOutcomes[5] >>))

\* transformVideoContent with every answer of the chat client: the request
\* starts where the tool has written a .vtt file with the transcript
InitAI ==
    /\ now = 1
    /\ apiKey \in BOOLEAN
    /\ items = << >>
    /\ \E k \in 1..Len(Transcripts) :
          fs = Put(<< >>, FileName("captions", 1, "vtt"),
                   [by |-> "r1", data |-> VttPrologue \o Transcripts[k]])
    /\ rq = [i \in Requests |->
              IF i = "r1"
              THEN [Idle(i) EXCEPT !.entry = "route", !.url = UrlTikTok,
                                   !.pc = "capTool", !.pv = "running",
                                   !.outputFile = 1, !.captionFile = 1, !.writes = 1,
                                   !.stages = << "classify", "captions" >>]
              ELSE Idle(i)]
    /\ Registered

NextAI ==
    \/ CaptionToolExits("r1")
    \/ ChatReturns("r1", ChatOutcomes)
    \/ MetadataReturns("r1")

SpecAI == InitAI /\ [][NextAI]_vars

(***************************************************************************)
(* ai.ts: validateCategory and validateSummary                             *)
(***************************************************************************)

FIXED_CATEGORIES ==
    << <<"T","e","c","h","n","o","l","o","g","y">>,
       <<"B","u","s","i","n","e","s","s">>,
       <<"F","i","n","a","n","c","e">>,
       <<"M","a","r","k","e","t","i","n","g">>,
       <<"P","r","o","d","u","c","t","i","v","i","t","y">>,
       <<"S","e","l","f","-","I","m","p","r","o","v","e","m","e","n","t">>,
       <<"H","e","a","l","t","h">>,
       <<"F","i","t","n","e","s","s">>,
       <<"C","o","o","k","i","n","g">>,
       <<"D","e","s","i","g","n">>,
       <<"C","r","e","a","t","i","v","e">>,
       <<"A","I">>,
       <<"P","r","o","g","r","a","m","m","i","n","g">>,
       <<"S","c","i","e","n","c","e">>,
       <<"E","d","u","c","a","t","i","o","n">>,
       <<"L","i","f","e","s","t","y","l","e">> >>

\* FIXED_CATEGORIES.find(...) gives nothing
NoFixedMatch(cleaned) == << >>

\* FIXED_CATEGORIES.find(fixed => fixed.toLowerCase() === cleaned.toLowerCase()),
\* as the sequence of the entries found first (empty, or one entry)
FixedMatch(cleaned) ==
    LET found == SelectSeq(FIXED_CATEGORIES,
                           LAMBDA fixed : ToLowerCase(fixed) = ToLowerCase(cleaned))
    IN SubSeq(found, 1, Min(1, Len(found)))

\* validateCategory(category), for a category that is any JSON value
validateCategory(category) ==
    IF ~Truthy(category) \/ category.t # "string"
    THEN GeneralCategory
    ELSE LET kept == SelectSeq(Trim(category.s),
                               LAMBDA c : IsWordChar(c) \/ IsSpace(c) \/ c = "-")
             \* split(/\s+/), capitalise, join(' ')
             cased == TitleCase(CollapseWhitespace(kept))
             words == Split(cased, " ")
             cleaned == Join(SubSeq(words, 1, Min(2, Len(words))), << " " >>)
         IN IF FixedMatch(cleaned) # << >>
            THEN FixedMatch(cleaned)[1]
            ELSE IF Len(cleaned) < 2 THEN GeneralCategory ELSE cleaned

\* The characters of the ranges lines 178-182 remove.  A text holds such a
\* character, and the backtick (U+0060), as one element named by its code
\* point.
IsEmoji(c) == c \in {"U+2600", "U+2728"}

\* s.replace(/\[([^\]]+)\]\([^\)]+\)/g, '$1')
RECURSIVE RemoveMarkdownLinks(_)
RemoveMarkdownLinks(s) ==
    LET closes(i, j) == /\ j > i + 1
                        /\ s[j] = "]"
                        /\ \A m \in (i + 1)..(j - 1) : s[m] # "]"
        ends(j, k) == /\ k > j + 2
                      /\ s[k] = ")"
                      /\ \A m \in (j + 2)..(k - 1) : s[m] # ")"
        linkAt(i) == /\ s[i] = "["
                     /\ \E j \in (i + 2)..(Len(s) - 3) :
                           /\ closes(i, j)
                           /\ s[j + 1] = "("
                           /\ \E k \in (j + 3)..Len(s) : ends(j, k)
    IN IF \A i \in 1..Len(s) : ~linkAt(i)
       THEN s
       ELSE LET i == CHOOSE x \in 1..Len(s) : linkAt(x) /\ \A y \in 1..(x - 1) : ~linkAt(y)
                j == CHOOSE x \in (i + 2)..Len(s) : closes(i, x)
                k == CHOOSE x \in (j + 3)..Len(s) : ends(j, x)
            IN SubSeq(s, 1, i - 1) \o SubSeq(s, i + 1, j - 1)
                 \o RemoveMarkdownLinks(SubSeq(s, k + 1, Len(s)))

SentenceFloor == 50

SourceLength == 160

\* validateSummary(summary, title, content): summary is any JSON value, title
\* a string, content a string or null
validateSummary(summary, title, content) ==
    LET orDefault(s) == IF s = << >> THEN <<"N","o"," ","s","u","m","m","a","r","y"," ","a","v","a","i","l","a","b","l","e",".">> ELSE s
        lastIndexOf(s, c) == IF \E k \in 1..Len(s) : s[k] = c
                             THEN (CHOOSE k \in 1..Len(s) :
                                      s[k] = c /\ \A j \in (k + 1)..Len(s) : s[j] # c) - 1
                             ELSE -1
        max(a, b) == IF a > b THEN a ELSE b
        limit(cleaned) ==
            LET truncated == Substring(cleaned, 0, MaxSummaryLength)
                lastSentenceEnd == max(lastIndexOf(truncated, "."),
                                       max(lastIndexOf(truncated, "!"),
                                           lastIndexOf(truncated, "?")))
                lastSpace == lastIndexOf(truncated, " ")
            IN IF Len(cleaned) <= MaxSummaryLength THEN cleaned
               ELSE IF lastSentenceEnd > SentenceFloor
               THEN Substring(cleaned, 0, lastSentenceEnd + 1)
               ELSE IF lastSpace > SentenceFloor
               THEN Substring(cleaned, 0, lastSpace) \o <<".",".",".">>
               ELSE truncated \o <<".",".",".">>
    IN IF ~Truthy(summary) \/ summary.t # "string"
       THEN orDefault(Trim(Substring(IF Truthy(content) THEN content.s ELSE title,
                                     0, SourceLength)))
       ELSE LET plain == SelectSeq(Trim(summary.s),
                                   LAMBDA c : ~IsEmoji(c) /\ c \notin {"*", "_", "U+0060"})
                cleaned == RemoveMarkdownLinks(plain)
                titleLower == Trim(ToLowerCase(title))
                summaryLower == Trim(ToLowerCase(cleaned))
                repeats == \/ summaryLower = titleLower
                           \/ StartsWith(summaryLower, titleLower \o << " " >>)
                other == IF Truthy(content)
                         THEN Trim(Substring(content.s, 0, SourceLength))
                         ELSE <<"I","n","f","o","r","m","a","t","i","o","n"," ","a","b","o","u","t"," ">> \o title
            IN orDefault(limit(IF repeats THEN other ELSE cleaned))

(***************************************************************************)
(* The functions of ai.ts, videoAI.ts and video.ts, called on their own    *)
(***************************************************************************)

\* transformVideoContent as a function of the transcript and of the answer
\* that ends the loop: the analysis of the try block, or the terminal
\* fallback.
ReturnedAnalysis(transcript, outcome) ==
    LET res == Attempt(outcome, transcript)
    IN IF res.ok THEN res.v ELSE FallbackAnalysis(transcript)

\* Titles as a model writes them
TitleInputs ==
    { << >>,
      <<"E","a","s","y"," ","P","a","s","t","a">>,
      <<"e","a","s","y"," ","P","A","S","T","A"," ","b","a","k","e">>,
      <<" "," ","h","e","l","l","o"," "," "," ","w","o","r","l","d"," "," ">>,
      <<"#"," ","a">>,
      <<"@","c","h","e","f"," ","#","1"," ","p","a","s","t","a">>,
      Pad(<<"o","n","e","-","p","o","t","-">>, 59) \o <<" ","w","e","e","k","n","i","g","h","t"," ","d","i","n","n","e","r">>,
      Pad(<<"s","l","o","w"," ","c","o","o","k","e","r"," ">>, 60),
      Pad(<<"S","l","o","w"," ","C","o","o","k","e","r"," ">>, 75) }

\* The summaries a model may answer with
SummaryInputs ==
    { Undefined,
      Text(<< >>),
      Text(<<"P","a","s","t","a"," ","N","i","g","h","t">>),
      Text(<<"p","a","s","t","a"," ","n","i","g","h","t"," ","i","s"," ","a"," ","*","*","q","u","i","c","k","*","*"," ","d","i","n","n","e","r",","," ","s","e","e"," ","[","t","h","e"," ","r","e","c","i","p","e","]","(","h","t","t","p",":","/","/","x",".","y","/","r",")"," ">> \o << "U+0060" >> \o <<"n","o","w">> \o << "U+0060" >>),
      Text(<<"A"," ","_","_","q","u","i","c","k","_","_"," ","d","i","n","n","e","r"," ">> \o << "U+2600" >> \o <<","," ","s","e","e"," ","[","t","h","e"," ","r","e","c","i","p","e","]","(","h","t","t","p",":","/","/","x",".","y","/","r",")",".">>),
      Text(Pad(<<"C","r","e","a","m","y">>, 210)),
      Text(Pad(<<"A"," ","q","u","i","c","k"," ","d","i","n","n","e","r"," ","w","i","t","h"," ","a">>, 198) \o <<" ","l","i","t","t","l","e"," ","c","r","e","a","m"," ","a","n","d"," ","g","a","r","l","i","c">>),
      Text(Pad(<<"B","o","i","l"," ","t","h","e"," ","p","a","s","t","a">>, 120) \o <<"."," ">> \o Pad(<<"T","h","e","n"," ","a","d","d"," ","t","h","e"," ","s","a","u","c","e">>, 100)) }

\* The titles of links and notes
SummaryTitles ==
    { << >>, <<"P","a","s","t","a"," ","N","i","g","h","t">>, Pad(<<"C","r","e","a","m","y">>, 210) }

\* The page description or note content, null when there is none
SummaryContents ==
    { Null, Text(<<"P","a","s","t","a"," ","N","i","g","h","t">>), Text(Pad(<<"M","i","x"," ","t","h","e"," ","f","l","o","u","r"," ","a","n","d"," ","t","h","e"," ","e","g","g","s","."," ">>, 170)) }

\* The categories a model may answer with
CategoryInputs ==
    { Undefined, Null, Num(5), Text(<< >>),
      Text(<<"t","e","c","h","n","o","l","o","g","y">>),
      Text(<<"T","E","C","H","N","O","L","O","G","Y">>),
      Text(<<" ","T","e","c","h","n","o","l","o","g","y"," ">>),
      Text(<<"a","i">>),
      Text(<<"s","e","l","f","-","i","m","p","r","o","v","e","m","e","n","t">>),
      Text(<<"C","o","o","k","i","n","g","!">>),
      Text(<<"!","!">>),
      Text(<<"x">>),
      Text(<<"h","o","m","e"," ","d","e","c","o","r"," ","i","d","e","a","s">>),
      Text(<<"f","o","o","d"," ","&"," ","d","r","i","n","k">>),
      Text(<<"h","e","a","l","t","h","	","c","a","r","e"," ","n","o","w">>),
      Text(<<"!","!"," ","t","e","c","h">>) }

\* Urls of the supported platforms and of others
UrlInputs ==
    Urls \cup
    { <<"h","t","t","p","s",":","/","/","w","w","w",".","i","n","s","t","a","g","r","a","m",".","c","o","m","/","R","e","e","l","/","C","x","1","/">>,
      <<"h","t","t","p","s",":","/","/","i","n","s","t","a","g","r","a","m",".","c","o","m","/","r","e","e","l","s","/","C","x","1","/">>,
      <<"h","t","t","p","s",":","/","/","w","w","w",".","y","o","u","t","u","b","e",".","c","o","m","/","s","h","o","r","t","s","/","a","1">>,
      <<"h","t","t","p","s",":","/","/","Y","o","u","T","u",".","b","e","/","a","1">>,
      <<"h","t","t","p","s",":","/","/","v","i","m","e","o",".","c","o","m","/","1">>,
      <<"h","t","t","p","s",":","/","/","e","x","a","m","p","l","e",".","c","o","m","/","r","e","e","l","/","1">>,
      <<"h","t","t","p","s",":","/","/","e","x","a","m","p","l","e",".","c","o","m","/","?","n","e","x","t","=","t","i","k","t","o","k",".","c","o","m">> }

\* The lines 584-593 of transformVideoContent applied to a title
CleanTitleCall ==
    /\ \E title \in TitleInputs :
          call' = [op |-> "cleanTitle", in |-> title, out |-> CleanTitle(title)]
    /\ UNCHANGED << now, apiKey, fs, items, rq, users, userByEmail, nodeEnv, openai, initializationAttempted >>

\* transformVideoContent returns
TransformCall ==
    /\ \E t \in 1..Len(Transcripts), k \in 1..Len(ChatOutcomes) :
          call' = [op |-> "transformVideoContent", in |-> Transcripts[t],
                   answer |-> ChatOutcomes[k],
                   out |-> ReturnedAnalysis(Transcripts[t], ChatOutcomes[k])]
    /\ UNCHANGED << now, apiKey, fs, items, rq, users, userByEmail, nodeEnv, openai, initializationAttempted >>

ValidateSummaryCall ==
    /\ \E summary \in SummaryInputs, title \in SummaryTitles, content \in SummaryContents :
          call' = [op |-> "validateSummary", in |-> summary, title |-> title,
                   content |-> content,
                   out |-> validateSummary(summary, title, content)]
    /\ UNCHANGED << now, apiKey, fs, items, rq, users, userByEmail, nodeEnv, openai, initializationAttempted >>

ValidateCategoryCall ==
    /\ \E category \in CategoryInputs :
          call' = [op |-> "validateCategory", in |-> category,
                   out |-> validateCategory(category)]
    /\ UNCHANGED << now, apiKey, fs, items, rq, users, userByEmail, nodeEnv, openai, initializationAttempted >>

DetectVideoPlatformCall ==
    /\ \E url \in UrlInputs :
          call' = [op |-> "detectVideoPlatform", in |-> url,
                   out |-> detectVideoPlatform(url)]
    /\ UNCHANGED << now, apiKey, fs, items, rq, users, userByEmail, nodeEnv, openai, initializationAttempted >>

\* The cues of well-formed WebVTT files: every cue is its text lines
VttCueInputs ==
    { << <<<<"M","i","x"," ","2"," ","c","u","p","s"," ","f","l","o","u","r",".">>>>, <<<<"T","h","e","n"," ","a","d","d"," "," ","t","h","e"," ","e","g","g","s",".">>>> >>,
      << <<<<" "," ","B","a","k","e"," "," "," ","i","t"," ">>>>, <<<<"f","o","r"," ","2","0"," ","m","i","n","u","t","e","s",".">>>> >>,
      << <<<<"S","t","a","r","t"," ","i","n">>, <<"3">>>>, <<<<"2">>>>, <<<<"G","o","!">>>> >>,
      << <<<<"<","v"," ","A","n","n","a",">","S","t","i","r"," ","w","e","l","l",".">>>>, <<<<"T","h","e","n"," ","r","e","s","t",".">>>> >> }

\* One cue of a file: its timing line, its text lines, a blank line
CueBlock(cue) ==
    <<"0","0",":","0","1"," ","-","-",">"," ","0","0",":","0","4","\n">> \o Join(cue, << "\n" >>) \o << "\n", "\n" >>

\* The file the tool writes for the cues: the header, a blank line, the cues
VttFile(cues) ==
    LET blocks == [k \in 1..Len(cues) |-> CueBlock(cues[k])]
    IN <<"W","E","B","V","T","T","\n","\n">> \o Join(blocks, << >>)

\* The .vtt branch of extractCaptions applied to a file
ParseVttCall ==
    /\ \E cues \in VttCueInputs :
          call' = [op |-> "parseVtt", in |-> cues, out |-> ParseVtt(VttFile(cues))]
    /\ UNCHANGED << now, apiKey, fs, items, rq, users, userByEmail, nodeEnv, openai, initializationAttempted >>

NextFunctions ==
    \/ CleanTitleCall
    \/ ParseVttCall
    \/ TransformCall
    \/ ValidateSummaryCall
    \/ ValidateCategoryCall
    \/ DetectVideoPlatformCall

SpecFunctions == Init /\ [][NextFunctions]_vars

(***************************************************************************)
(* storage.ts: MemStorage.  The map of items is the variable items; every  *)
(* method runs to its end without an await.                                *)
(***************************************************************************)

\* { ...a, ...b }: the fields of b over those of a
Assign(a, b) == [f \in (DOMAIN a) \cup (DOMAIN b) |-> IF f \in DOMAIN b THEN b[f] ELSE a[f]]

\* the test of lines 83, 91 and 110 without the comparison of the owner
Stored(store, id, userId) == id \in DOMAIN store

\* const item = this.items.get(id); !(!item || item.userId !== userId)
OwnedBy(store, id, userId) == id \in DOMAIN store /\ store[id].userId = userId

createItem(itemData, t, rnd) ==
    Assign(itemData, [id |-> [ts |-> t, rnd |-> rnd], createdAt |-> t])

\* Array.prototype.sort by createdAt, latest first.  Items of one
\* millisecond stay in the order of the map, which the model does not
\* keep: every order of them is a possible result.
RECURSIVE SortLatestFirst(_)
SortLatestFirst(S) ==
    IF S = {} THEN {<< >>}
    ELSE LET latest == {x \in S : \A y \in S : x.createdAt >= y.createdAt}
         IN UNION {{<< x >> \o q : q \in SortLatestFirst(S \ {x})} : x \in latest}

getItemsByUserId(store, userId) ==
    SortLatestFirst({store[k] : k \in {x \in DOMAIN store : store[x].userId = userId}})

getItemById(store, id, userId) ==
    IF OwnedBy(store, id, userId) THEN store[id] ELSE Null

\* the stored map and the result: null for a missing or foreign item
\* updateItem as it would be without the three lines that write id, userId
\* and createdAt back
updateItemSpread(store, id, userId, updates) ==
    IF ~OwnedBy(store, id, userId) THEN [items |-> store, out |-> Null]
    ELSE [items |-> Put(store, id, Assign(store[id], updates)),
          out |-> Assign(store[id], updates)]

updateItem(store, id, userId, updates) ==
    IF ~OwnedBy(store, id, userId) THEN [items |-> store, out |-> Null]
    ELSE LET item == store[id]
             updated == Assign(Assign(item, updates),
                               [id |-> item.id, userId |-> item.userId,
                                createdAt |-> item.createdAt])
         IN [items |-> Put(store, id, updated), out |-> updated]

deleteItem(store, id, userId) ==
    IF ~OwnedBy(store, id, userId) THEN [items |-> store, out |-> FALSE]
    ELSE [items |-> [k \in (DOMAIN store) \ {id} |-> store[k]], out |-> TRUE]

\* The callers of the storage, the ids they may name (the stored ones and
\* one that is not stored) and the updates they may send: a new title, and
\* a new title with another owner, id and date.
StorageUsers == {UserOf(i) : i \in Requests}

ItemIds == [ts : 1..MaxClock, rnd : RandomParts]

ItemUpdates ==
    {[title |-> << "b" >>],
     [title |-> << "b" >>, userId |-> UserOf("r2"), id |-> NoId, createdAt |-> 0]}

\* At most so many items are stored.
MaxItems == 2

\* What a caller may hand to createItem for a user: the fields of the item,
\* and the same with an id and a date of its own
ItemPayloads(u) ==
    {[userId |-> u, type |-> "note", title |-> << "a" >>],
     [userId |-> u, type |-> "note", title |-> << "a" >>, id |-> NoId, createdAt |-> 0]}

CreateItemCall(u, rnd) ==
    \E itemData \in ItemPayloads(u) :
       LET newItem == createItem(itemData, now, rnd)
       IN /\ Cardinality(DOMAIN items) < MaxItems
          /\ items' = Put(items, newItem.id, newItem)
          /\ call' = [op |-> "createItem", userId |-> u, id |-> newItem.id,
                      before |-> items, out |-> newItem]
       /\ UNCHANGED << now, apiKey, fs, rq, users, userByEmail, nodeEnv, openai, initializationAttempted >>

GetItemsByUserIdCall(u) ==
    /\ \E list \in getItemsByUserId(items, u) :
          call' = [op |-> "getItemsByUserId", userId |-> u, id |-> NoId,
                   before |-> items, out |-> list]
    /\ UNCHANGED << now, apiKey, fs, items, rq, users, userByEmail, nodeEnv, openai, initializationAttempted >>

GetItemByIdCall(id, u) ==
    /\ call' = [op |-> "getItemById", userId |-> u, id |-> id,
                before |-> items, out |-> getItemById(items, id, u)]
    /\ UNCHANGED << now, apiKey, fs, items, rq, users, userByEmail, nodeEnv, openai, initializationAttempted >>

UpdateItemCall(id, u, updates) ==
    LET result == updateItem(items, id, u, updates)
    IN /\ items' = result.items
       /\ call' = [op |-> "updateItem", userId |-> u, id |-> id,
                   before |-> items, in |-> updates, out |-> result.out]
       /\ UNCHANGED << now, apiKey, fs, rq, users, userByEmail, nodeEnv, openai, initializationAttempted >>

DeleteItemCall(id, u) ==
    LET result == deleteItem(items, id, u)
    IN /\ items' = result.items
       /\ call' = [op |-> "deleteItem", userId |-> u, id |-> id,
                   before |-> items, out |-> result.out]
       /\ UNCHANGED << now, apiKey, fs, rq, users, userByEmail, nodeEnv, openai, initializationAttempted >>

NextStorage ==
    \/ \E u \in StorageUsers, rnd \in RandomParts : CreateItemCall(u, rnd)
    \/ \E u \in StorageUsers : GetItemsByUserIdCall(u)
    \/ \E id \in ItemIds, u \in StorageUsers : GetItemByIdCall(id, u)
    \/ \E id \in ItemIds, u \in StorageUsers, updates \in ItemUpdates :
          UpdateItemCall(id, u, updates)
    \/ \E id \in ItemIds, u \in StorageUsers : DeleteItemCall(id, u)
    \/ Tick

SpecStorage == Init /\ [][NextStorage]_vars

(***************************************************************************)
(* jwt.ts, storage.ts (users) and auth.ts: jwtAuthMiddleware               *)
(***************************************************************************)

\* A signed token is the text of three parts: the userId of its payload, a
\* dot and the signature, each one element of the text.  jwt.verify accepts
\* the signature made with JWT_SECRET and throws for everything else (a
\* forged, cut or expired token); verifyToken turns the throw into null.
generateToken(payload) == << payload.userId, ".", "signed" >>

verifyToken(token) ==
    IF Len(token) = 3 /\ token[2] = "." /\ token[3] = "signed"
    THEN [userId |-> token[1]]
    ELSE Null

\* MemStorage.upsertUser on the maps users and userByEmail: the maps after
\* the call and the user returned.  Of a user the id and the email are kept.
upsertUser(us, byEmail, userData, t, rnd) ==
    IF userData.email \in DOMAIN byEmail
    THEN LET existing == byEmail[userData.email]
             updated == Assign(us[existing], userData)
         IN [users |-> Put(us, existing, updated), userByEmail |-> byEmail,
             out |-> updated]
    ELSE LET newUser == [id |-> IF "id" \in DOMAIN userData THEN userData.id
                                ELSE "user-" \o ToString(t) \o "-" \o rnd,
                         email |-> userData.email]
         IN [users |-> Put(us, newUser.id, newUser),
             userByEmail |-> Put(byEmail, newUser.email, newUser.id),
             out |-> newUser]

\* MemStorage.getUserById
getUserById(us, id) == IF id \in DOMAIN us THEN us[id] ELSE Null

DevEmail == "dev@smartvault.app"

DevUserId == "dev-user-123"

\* the middleware as it would be if the dev token counted in every environment
DevTokenAnywhere(devToken, env) == devToken = Text(<< "d", "e", "v" >>)

\* devToken === 'dev' && process.env.NODE_ENV !== 'production'
DevTokenAccepted(devToken, env) ==
    devToken = Text(<< "d", "e", "v" >>) /\ env # "production"

BearerPrefix == << "B", "e", "a", "r", "e", "r", " " >>

\* What jwtAuthMiddleware does with the two headers: the maps of users
\* after it, whether next() is called, req.user, and the status answered
\* (0 when none is).
jwtAuth(us, byEmail, env, devToken, authHeader, t, rnd) ==
    LET refuse == [users |-> us, userByEmail |-> byEmail, next |-> FALSE,
                   user |-> Undefined, status |-> 401]
    IN IF DevTokenAccepted(devToken, env)
       THEN LET up == upsertUser(us, byEmail, [id |-> DevUserId, email |-> DevEmail], t, rnd)
            IN [users |-> up.users, userByEmail |-> up.userByEmail, next |-> TRUE,
                user |-> [id |-> up.out.id, email |-> up.out.email], status |-> 0]
       ELSE IF ~Truthy(authHeader) \/ ~StartsWith(authHeader.s, BearerPrefix)
       THEN refuse
       ELSE LET payload == verifyToken(Substring(authHeader.s, 7, Len(authHeader.s)))
            IN IF payload = Null THEN refuse
               ELSE LET user == getUserById(us, payload.userId)
                    IN IF user = Null THEN refuse
                       ELSE [refuse EXCEPT !.next = TRUE, !.status = 0,
                                           !.user = [id |-> user.id, email |-> user.email]]

\* process.env.NODE_ENV ("unset" when the variable is not set)
NodeEnvs == {"production", "development", "unset"}

\* The x-dev-token header of a request
DevTokenHeaders ==
    {Undefined, Text(<< "d", "e", "v" >>), Text(<< "D", "e", "v" >>), Text(<< >>)}

\* Tokens a client may send: signed for the registered user, for the dev
\* user, for the user a login creates at time 1 and for a user that was
\* never stored; a token with another signature and a cut one.
ClientTokens ==
    {generateToken([userId |-> id]) :
        id \in {UserOf("r1"), DevUserId, "user-1-k3f9", "user-9"}}
    \cup {<< UserOf("r1"), ".", "forged" >>, << UserOf("r1"), "." >>}

\* The authorization header of a request
AuthorizationHeaders ==
    {Undefined, Text(<< >>)}
    \cup {Text(BearerPrefix \o tok) : tok \in ClientTokens}
    \cup {Text(p \o generateToken([userId |-> UserOf("r1")])) :
             p \in {<< >>, << "b", "e", "a", "r", "e", "r", " " >>,
                    << "B", "e", "a", "r", "e", "r" >>,
                    << "B", "e", "a", "r", "e", "r", " ", " " >>,
                    << "B", "a", "s", "i", "c", " " >>}}

InitAuth ==
    /\ now = 1
    /\ apiKey = TRUE
    /\ fs = << >>
    /\ items = << >>
    /\ rq = [i \in Requests |-> Idle(i)]
    /\ users = [k \in {UserOf("r1")} |-> [id |-> k, email |-> k \o "@example.com"]]
    /\ userByEmail = [e \in {UserOf("r1") \o "@example.com"} |-> UserOf("r1")]
    /\ nodeEnv \in NodeEnvs
    /\ openai = Null
    /\ initializationAttempted = FALSE
    /\ call = NoCall

\* One request through the middleware
JwtAuthMiddleware(devToken, authHeader, rnd) ==
    LET result == jwtAuth(users, userByEmail, nodeEnv, devToken, authHeader, now, rnd)
    IN /\ users' = result.users
       /\ userByEmail' = result.userByEmail
       /\ call' = [op |-> "jwtAuthMiddleware", devToken |-> devToken,
                   authorization |-> authHeader, before |-> users,
                   next |-> result.next, user |-> result.user,
                   status |-> result.status]
       /\ UNCHANGED << now, apiKey, fs, items, rq, nodeEnv, openai, initializationAttempted >>

\* handleGoogleLogin and handleAppleLogin after the identity is verified:
\* the user of the email is created or updated and gets a token for its id
Login(email, rnd) ==
    LET up == upsertUser(users, userByEmail, [email |-> email], now, rnd)
    IN /\ users' = up.users
       /\ userByEmail' = up.userByEmail
       /\ call' = [op |-> "login", before |-> users,
                   token |-> generateToken([userId |-> up.out.id])]
       /\ UNCHANGED << now, apiKey, fs, items, rq, nodeEnv, openai, initializationAttempted >>

NextAuth ==
    \/ \E devToken \in DevTokenHeaders, authHeader \in AuthorizationHeaders,
          rnd \in RandomParts : JwtAuthMiddleware(devToken, authHeader, rnd)
    \/ \E email \in {DevEmail, UserOf("r1") \o "@example.com"}, rnd \in RandomParts :
          Login(email, rnd)
    \/ Tick

SpecAuth == InitAuth /\ [][NextAuth]_vars

(***************************************************************************)
(* ai.ts: initializeOpenAI, fallbackAnalysis and analyzeContent            *)
(***************************************************************************)

NoSummaryAvailable == <<"N","o"," ","s","u","m","m","a","r","y"," ","a","v","a","i","l","a","b","l","e",".">>

\* content || title || ''
TextSource(title, content) == IF Truthy(content) THEN content.s ELSE title

\* fallbackAnalysis as it would be without .trim()
fallbackAnalysisUntrimmed(title, content) ==
    LET cut == Substring(TextSource(title, content), 0, SourceLength)
    IN [category |-> GeneralCategory,
        summary |-> CapSummary(IF cut = << >> THEN NoSummaryAvailable ELSE cut)]

\* Lines 117-126: textSource.slice(0, 160).trim() || 'No summary available.',
\* then the cut to 200 characters
fallbackAnalysis(title, content) ==
    LET cut == Trim(Substring(TextSource(title, content), 0, SourceLength))
    IN [category |-> GeneralCategory,
        summary |-> CapSummary(IF cut = << >> THEN NoSummaryAvailable ELSE cut)]

\* initializeOpenAI as it would be if it tried again on every call
initializeOpenAIAgain(attempted, client, key, t) ==
    [initializationAttempted |-> TRUE,
     openai |-> IF key THEN [instance |-> t] ELSE Null]

\* Lines 87-114: the variables after the call; openai is also the client
\* returned.  new OpenAI(...) is given a key and returns.
initializeOpenAI(attempted, client, key, t) ==
    IF attempted THEN [initializationAttempted |-> TRUE, openai |-> client]
    ELSE [initializationAttempted |-> TRUE,
          openai |-> IF key THEN [instance |-> t] ELSE Null]

\* The try block of analyzeContent for one model (lines 299-351): the
\* analysis returned, or the error the catch block receives.  The text of
\* the answer is parsed as in videoAI.ts; a result that is no object fails
\* at result.category, and the salvage finds no {...} span in it.
AnalyzeAttempt(outcome, title, content) ==
    IF outcome.kind = "rejected" THEN Throw(outcome.error)
    ELSE IF outcome.kind = "nochoice" THEN Throw(Error(<<"C","a","n","n","o","t"," ","r","e","a","d"," ","p","r","o","p","e","r","t","i","e","s"," ","o","f"," ","u","n","d","e","f","i","n","e","d"," ","(","r","e","a","d","i","n","g"," ","'","m","e","s","s","a","g","e","'",")">>))
    ELSE LET parsed == ParseContent(outcome.content)
         IN IF ~parsed.ok THEN parsed
            ELSE IF ~IsObjectLike(parsed.v) THEN Throw(Error(MsgInvalidJson))
            ELSE Ok([category |-> validateCategory(OrElse(Get(parsed.v, "category"), Text(<< >>))),
                     summary |-> validateSummary(OrElse(Get(parsed.v, "summary"), Text(<< >>)),
                                                 title, content)])

\* analyzeContent up to the loop (lines 236-248): the record of the call,
\* which has returned the fallback when there is no client or no key
AnalyzeStart(client, key, title, content) ==
    LET c == [op |-> "analyzeContent", pc |-> "chat", title |-> title,
              content |-> content, client |-> client, key |-> key, asked |-> 0,
              answered |-> FALSE, out |-> Null]
    IN IF client = Null \/ ~key
       THEN [c EXCEPT !.pc = "done", !.out = fallbackAnalysis(title, content)]
       ELSE c

\* One turn of the loop over Models (lines 296-381): the chat client has
\* answered the call c for the next model
AnalyzeTurn(c, outcome) ==
    LET res == AnalyzeAttempt(outcome, c.title, c.content)
        turn == [c EXCEPT !.asked = @ + 1]
    IN IF res.ok
       THEN [turn EXCEPT !.pc = "done", !.answered = TRUE, !.out = res.v]
       ELSE IF IsModelUnavailable(res.error) /\ turn.asked < Len(Models)
       THEN turn
       ELSE [turn EXCEPT !.pc = "done", !.out = fallbackAnalysis(c.title, c.content)]

\* The titles and the contents of links and notes
AnalyzeTitles == { <<"M","y"," ","N","o","t","e">>, << >> }

AnalyzeContents ==
    { Null, Text(<<" "," "," ">>),
      Text(<<" "," ","M","i","x"," ","t","h","e"," ","f","l","o","u","r",".">>),
      Text(Pad(<<"M","i","x"," ","t","h","e"," ","f","l","o","u","r"," ","a","n","d"," ","t","h","e"," ","e","g","g","s","."," ">>, 170)) }

\* What the chat client may answer to analyzeContent
AnalyzeOutcomes ==
    { \* {"summary":"A quick batter.","category":"cooking"}
      Resolved(JsonContent(Object([summary |-> Text(<<"A"," ","q","u","i","c","k"," ","b","a","t","t","e","r",".">>), category |-> Text(<<"c","o","o","k","i","n","g">>)]))),
      Resolved(JsonContent(Null)),
      Resolved(ProseContent),
      Rejected(ApiError(<<"T","h","e"," ","m","o","d","e","l"," ","d","o","e","s"," ","n","o","t"," ","e","x","i","s","t">>, 404, "model_not_found")),
      Rejected(Error(<<"R","a","t","e"," ","l","i","m","i","t"," ","r","e","a","c","h","e","d">>)) }

\* analyzeContent is called: the client is initialised on the first call
AnalyzeContentStarts(title, content) ==
    LET init == initializeOpenAI(initializationAttempted, openai, apiKey, now)
    IN /\ call.op = "analyzeContent" => call.pc = "done"
       /\ initializationAttempted' = init.initializationAttempted
       /\ openai' = init.openai
       /\ call' = AnalyzeStart(init.openai, apiKey, title, content)
       /\ UNCHANGED << now, apiKey, fs, items, rq, users, userByEmail, nodeEnv >>

\* client.chat.completions.create settles
AnalyzeChatReturns(outcome) ==
    /\ call.op = "analyzeContent"
    /\ call.pc = "chat"
    /\ call' = AnalyzeTurn(call, outcome)
    /\ UNCHANGED << now, apiKey, fs, items, rq, users, userByEmail, nodeEnv, openai, initializationAttempted >>

\* process.env.OPENAI_API_KEY is set or unset while the process runs
SetApiKey ==
    /\ apiKey' = ~apiKey
    /\ UNCHANGED << now, fs, items, rq, users, userByEmail, nodeEnv, openai, initializationAttempted, call >>

NextAnalyze ==
    \/ \E title \in AnalyzeTitles, content \in AnalyzeContents :
          AnalyzeContentStarts(title, content)
    \/ \E outcome \in AnalyzeOutcomes : AnalyzeChatReturns(outcome)
    \/ SetApiKey
    \/ Tick

SpecAnalyze == Init /\ [][NextAnalyze]_vars

(***************************************************************************)
(* routes.ts: PATCH /items/:id and DELETE /items/:id on the storage.  The  *)
(* PATCH handler awaits the storage twice; what the other routes do in     *)
(* between is seen by its second call.  The variable call holds the PATCH  *)
(* request in flight: its pc, the updates it has built and its answer.     *)
(***************************************************************************)

ItemTypes == {"link", "video", "note"}

\* The item that POST /save-link, /save-video or /save-note hands to
\* createItem; a note has a content and no url
SavedItem(u, type) ==
    [userId |-> u, type |-> type, title |-> Text(<< "t" >>),
     content |-> IF type = "note" THEN Text(<< "c" >>) ELSE Undefined,
     summary |-> Text(<< "s" >>), category |-> Text(GeneralCategory),
     url |-> IF type = "note" THEN Undefined ELSE Text(<< "u" >>),
     userNotes |-> Undefined]

\* req.body of a PATCH: the five properties the handler reads (Undefined
\* when absent) and three it does not read
PatchBody(userNotes, title, content, summary, category) ==
    [userNotes |-> userNotes, title |-> title, content |-> content,
     summary |-> summary, category |-> category,
     type |-> Undefined, userId |-> Undefined, id |-> Undefined]

PatchBodies ==
    { PatchBody(Undefined, Undefined, Undefined, Undefined, Undefined),
      PatchBody(Null, Undefined, Undefined, Undefined, Null),
      PatchBody(Text(<< "n" >>), Text(<< "T" >>), Text(<< "C" >>), Text(<< "S" >>),
                Text(<<"C","o","o","k","i","n","g">>)),
      [PatchBody(Text(<< >>), Text(<< "T" >>), Null, Undefined, Text(<< >>))
          EXCEPT !.type = Text(<<"n","o","t","e">>), !.userId = Text(<<"u","s","e","r","-","2">>),
                 !.id = Text(<< "x" >>)] }

\* The updates as they would be if title, content and summary were taken
\* for every type of item
PatchUpdatesAnyType(existingItem, body) ==
    [f \in {g \in {"userNotes", "category", "title", "content", "summary"} :
                body[g] # Undefined} |->
        CASE f = "userNotes" -> OrElse(body.userNotes, Undefined)
          [] f = "category" -> OrElse(body.category, Text(<< >>))
          [] OTHER -> body[f]]

\* Lines 363-387: the updates built from the body and the type of the item
PatchUpdates(existingItem, body) ==
    LET taken == {"userNotes", "category"} \cup
                 (IF existingItem.type = "note"
                  THEN {"title", "content", "summary"} ELSE {})
    IN [f \in {g \in taken : body[g] # Undefined} |->
           CASE f = "userNotes" -> OrElse(body.userNotes, Undefined)
             [] f = "category" -> OrElse(body.category, Text(<< >>))
             [] OTHER -> body[f]]

NoPatch ==
    [op |-> "patch", pc |-> "done", id |-> NoId, userId |-> "none",
     body |-> PatchBody(Undefined, Undefined, Undefined, Undefined, Undefined),
     updates |-> << >>, status |-> 0, item |-> Null]

InitPatch ==
    /\ now = 1
    /\ apiKey = TRUE
    /\ fs = << >>
    /\ items = << >>
    /\ rq = [i \in Requests |-> Idle(i)]
    /\ users = [k \in StorageUsers |-> [id |-> k, email |-> k \o "@example.com"]]
    /\ userByEmail = [e \in {k \o "@example.com" : k \in StorageUsers} |->
                        CHOOSE k \in StorageUsers : k \o "@example.com" = e]
    /\ nodeEnv = "production"
    /\ openai = Null
    /\ initializationAttempted = FALSE
    /\ call = NoPatch

\* One of the three save routes reaches createItem.  The ids of two items
\* are taken to differ (the random part has nine characters): one item is
\* created in a millisecond, and the clock goes on with it.
SaveItem(u, type, rnd) ==
    LET newItem == createItem(SavedItem(u, type), now, rnd)
    IN /\ now <= MaxClock
       /\ Cardinality(DOMAIN items) < MaxItems
       /\ items' = Put(items, newItem.id, newItem)
       /\ now' = now + 1
       /\ UNCHANGED << apiKey, fs, rq, users, userByEmail, nodeEnv, openai, initializationAttempted, call >>

\* PATCH /items/:id up to the answer of getItemById: 404 for an item that
\* is missing or of another user, the updates otherwise
PatchItemStarts(id, u, body) ==
    LET existingItem == getItemById(items, id, u)
        request == [NoPatch EXCEPT !.id = id, !.userId = u, !.body = body]
    IN /\ call.pc = "done"
       /\ call' = IF existingItem = Null
                  THEN [request EXCEPT !.status = 404]
                  ELSE [request EXCEPT !.pc = "update",
                                       !.updates = PatchUpdates(existingItem, body)]
       /\ UNCHANGED << now, apiKey, fs, items, rq, users, userByEmail, nodeEnv, openai, initializationAttempted >>

\* PATCH /items/:id from the answer of updateItem to the response
PatchItemUpdates ==
    LET result == updateItem(items, call.id, call.userId, call.updates)
    IN /\ call.pc = "update"
       /\ items' = result.items
       /\ call' = [call EXCEPT !.pc = "done", !.item = result.out,
                               !.status = IF result.out = Null THEN 404 ELSE 200]
       /\ UNCHANGED << now, apiKey, fs, rq, users, userByEmail, nodeEnv, openai, initializationAttempted >>

\* DELETE /items/:id
DeleteItemRoute(id, u) ==
    /\ items' = deleteItem(items, id, u).items
    /\ UNCHANGED << now, apiKey, fs, rq, users, userByEmail, nodeEnv, openai, initializationAttempted, call >>

\* The ids a request may name: those of the items saved, before they are
\* stored and after
PatchIds == {id \in ItemIds : id.rnd = "k3f9"}

\* The first user saves, both users patch and delete
NextPatch ==
    \/ \E type \in ItemTypes : SaveItem(UserOf("r1"), type, "k3f9")
    \/ \E id \in PatchIds, u \in StorageUsers, body \in PatchBodies : PatchItemStarts(id, u, body)
    \/ PatchItemUpdates
    \/ \E id \in PatchIds, u \in StorageUsers : DeleteItemRoute(id, u)

SpecPatch == InitPatch /\ [][NextPatch]_vars

(***************************************************************************)
(* The properties                                                          *)
(***************************************************************************)

\* The request of Spec
R1 == rq["r1"]

\* extractCaptions has resolved, and with text processVideo can use
CaptionsResolved(r) == r.captions.t # "undefined"

CaptionsUsable(r) == IsText(r.captions) /\ Len(r.captions.s) > MinCaptionLength

\* C1: processVideo returns the caption text, with no audio extraction and
\* no transcription started, exactly when extractCaptions resolved to text
\* of more than 50 characters; when it resolved to anything else the audio
\* extraction starts and what processVideo returns is a transcription.
\* Before extractCaptions resolves neither happens.
C1_CaptionsDecide ==
    /\ CaptionsResolved(R1) /\ CaptionsUsable(R1) =>
          /\ R1.pv = "returned"
          /\ R1.transcript = R1.captions.s
          /\ \A k \in 1..Len(R1.stages) : R1.stages[k] # "audio"
          /\ R1.actualFile = NoFile /\ R1.tempFile = NoFile
    /\ CaptionsResolved(R1) /\ ~CaptionsUsable(R1) =>
          /\ \E k \in 1..Len(R1.stages) : R1.stages[k] = "audio"
          /\ R1.captions = Null
          /\ R1.pv = "returned" => R1.tempFile # NoFile
    /\ ~CaptionsResolved(R1) =>
          /\ R1.pv # "returned"
          /\ \A k \in 1..Len(R1.stages) : R1.stages[k] # "audio"

\* C1, reached: processVideo has returned captions of 51 characters
C1_Witness ==
    /\ R1.pv = "returned"
    /\ CaptionsUsable(R1)
    /\ Len(R1.transcript) = MinCaptionLength + 1

\* processVideo has returned to the handler a transcript that is not blank
TranscriptAcquired(r) ==
    r.entry = "route" /\ r.pv = "returned" /\ Len(Trim(r.transcript)) > 0

\* C2 as amended: while OPENAI_API_KEY is set, transformVideoContent never
\* throws whatever the chat client answers: the request leaves the loop
\* with an analysis, never answers with an error, and ends with status 200
\* and its item in the store.
C2_NeverFatalWithKey ==
    apiKey /\ TranscriptAcquired(R1) =>
        /\ R1.pc \in {"chat", "metadata", "done"}
        /\ R1.pc # "chat" => R1.analysed
        /\ R1.response.status \in {0, 200}
        /\ R1.pc = "done" => R1.response.status = 200 /\ R1.itemId \in DOMAIN items

\* C2, reached: a request whose only chat call failed with an error that is
\* not model-unavailable has stored its item
C2_Witness ==
    /\ apiKey
    /\ R1.pc = "done"
    /\ Len(R1.chatLog) = 1 /\ ~R1.chatLog[1].ok
    /\ R1.response.status = 200
    /\ R1.itemId \in DOMAIN items

\* C2 as stated: whatever the configuration, a request whose transcript was
\* acquired never answers with an error and ends with its item in the store.
C2_NeverFatal ==
    TranscriptAcquired(R1) =>
        /\ R1.pc \in {"chat", "metadata", "done"}
        /\ R1.pc # "chat" => R1.analysed
        /\ R1.response.status \in {0, 200}
        /\ R1.pc = "done" => R1.response.status = 200 /\ R1.itemId \in DOMAIN items

\* "model not found"-class: the message mentions "model", the status is
\* 404, or the code is model_not_found
ModelNotFoundClass(e) ==
    \/ \E k \in 1..Len(e.message) :
          k + 4 <= Len(e.message) /\ SubSeq(e.message, k, k + 4) = << "m", "o", "d", "e", "l" >>
    \/ e.status = 404
    \/ e.code = "model_not_found"

\* every model of the list was called and failed with such an error
AllModelsNotFound(r) ==
    /\ Len(r.chatLog) = Len(Models)
    /\ \A k \in 1..Len(r.chatLog) :
          ~r.chatLog[k].ok /\ ModelNotFoundClass(r.chatLog[k].error)

\* the text before the first period within the first 50 characters
BeforeFirstPeriod(t) ==
    LET head == SubSeq(t, 1, Min(TitleSourceLength, Len(t)))
        dots == {k \in 1..Len(head) : head[k] = "."}
    IN IF dots = {} THEN head
       ELSE SubSeq(head, 1, (CHOOSE k \in dots : \A j \in dots : k <= j) - 1)

\* type general with no detail block, category General, summary the first
\* 200 characters of the transcript, and the title given
IsTerminalFallback(analysis, t, title) ==
    /\ analysis.structuredContent.type = Text(<< "g", "e", "n", "e", "r", "a", "l" >>)
    /\ analysis.structuredContent.recipe = Undefined
    /\ analysis.structuredContent.workout = Undefined
    /\ analysis.structuredContent.tutorial = Undefined
    /\ analysis.category = Text(<< "G", "e", "n", "e", "r", "a", "l" >>)
    /\ analysis.summary = Text(SubSeq(t, 1, Min(MaxSummaryLength, Len(t))))
    /\ analysis.title = title

\* C3 as amended: when every model fails with a model-not-found-class
\* error, transformVideoContent returns the terminal fallback, whose title
\* is the text before the first period within the first 50 characters with
\* the white space at its ends removed, or "Video" when nothing is left.
C3_FallbackTrimmedTitle ==
    AllModelsNotFound(R1) =>
        /\ R1.analysed
        /\ IsTerminalFallback(R1.aiAnalysis, R1.transcript,
               IF Trim(BeforeFirstPeriod(R1.transcript)) = << >>
               THEN << "V", "i", "d", "e", "o" >>
               ELSE Trim(BeforeFirstPeriod(R1.transcript)))

\* C3, reached: all three models were unavailable for a transcript whose
\* first period follows a space
C3_Witness ==
    /\ AllModelsNotFound(R1)
    /\ R1.analysed
    /\ R1.transcript = Transcripts[1]
    /\ Trim(BeforeFirstPeriod(R1.transcript)) # BeforeFirstPeriod(R1.transcript)

\* C3 as stated: the title is the text before the first period within the
\* first 50 characters, or "Video" when that text is empty.
C3_FallbackTitle ==
    AllModelsNotFound(R1) =>
        /\ R1.analysed
        /\ IsTerminalFallback(R1.aiAnalysis, R1.transcript,
               IF BeforeFirstPeriod(R1.transcript) = << >>
               THEN << "V", "i", "d", "e", "o" >>
               ELSE BeforeFirstPeriod(R1.transcript))

\* C4: an attempt that fails with an error that is not of the
\* model-not-found class is the last one: the loop is left, the number of
\* chat calls is the index of that attempt, and the analysis is the
\* terminal fallback (with the title the code gives it).
C4_NoCallAfterFailure ==
    \A k \in 1..Len(R1.chatLog) :
        ~R1.chatLog[k].ok /\ ~ModelNotFoundClass(R1.chatLog[k].error) =>
            /\ k = Len(R1.chatLog)
            /\ R1.attempt = k
            /\ R1.pc \in {"metadata", "done"}
            /\ R1.analysed
            /\ IsTerminalFallback(R1.aiAnalysis, R1.transcript,
                   IF Trim(BeforeFirstPeriod(R1.transcript)) = << >>
                   THEN << "V", "i", "d", "e", "o" >>
                   ELSE Trim(BeforeFirstPeriod(R1.transcript)))

\* C4, reached: the first model was unavailable, the second answered with
\* text that is not JSON, and no third call was made
C4_Witness ==
    /\ Len(R1.chatLog) = 2
    /\ ModelNotFoundClass(R1.chatLog[1].error)
    /\ ~R1.chatLog[2].ok /\ ~ModelNotFoundClass(R1.chatLog[2].error)
    /\ R1.chatLog[2].error.message = MsgInvalidJson
    /\ R1.attempt = 2
    /\ R1.analysed

\* a caption or audio temporary file the invocation i created
CreatedBy(i) ==
    {f \in DOMAIN fs : fs[f].by = i /\ f.prefix \in {"captions", "audio", "whisper"}}

\* C5: once processVideo has returned or raised, no caption or audio
\* temporary file the invocation created is left in the temp directory.
C5_NoTempFileRemains ==
    R1.pv \in {"returned", "raised"} => CreatedBy("r1") = {}

\* the two invocations took their timestamps in different milliseconds
DifferentMilliseconds ==
    /\ rq["r1"].pv # "none" /\ rq["r2"].pv # "none"
    /\ {rq["r1"].outputFile, rq["r1"].captionFile}
           \cap {rq["r2"].outputFile, rq["r2"].captionFile} = {}

\* C6, of two invocations of processVideo started in different
\* milliseconds (the claim says it of the same millisecond too): neither
\* selects, reads or deletes a temporary file the other created, and so
\* neither returns text from one.
C6_NoInterference ==
    DifferentMilliseconds => \A i \in Requests : rq[i].touched \subseteq {i}

\* C7: when processVideo raises, or returns an empty or blank transcript,
\* the captions were not usable and the audio stage was entered; the
\* handler answers 500, transformVideoContent is not called, and the store
\* holds no item.
C7_FailureStoresNothing ==
    R1.entry = "route"
    /\ (R1.pv = "raised" \/ (R1.pv = "returned" /\ Len(Trim(R1.transcript)) = 0)) =>
        /\ ~CaptionsUsable(R1)
        /\ \E k \in 1..Len(R1.stages) : R1.stages[k] = "audio"
        /\ R1.pv = "raised" => R1.error # NoError
        /\ R1.pc = "done"
        /\ R1.response.status = 500
        /\ \A k \in 1..Len(R1.stages) : R1.stages[k] # "ai"
        /\ R1.attempt = 0 /\ ~R1.analysed
        /\ R1.itemId = NoId
        /\ DOMAIN items = {}

\* C7, reached: the transcription came back blank and the handler answered
\* 500
C7_Witness ==
    /\ R1.entry = "route"
    /\ R1.pv = "returned"
    /\ R1.transcript = << " ", "\n" >>
    /\ R1.response.status = 500

\* C8: for a url the classifier rejects, processVideo raises with no tool
\* run and no file written, and the handler answers 400 with processVideo,
\* the chat client and createItem not called.
C8_UnsupportedStopsEarly ==
    R1.entry # "none" /\ ~detectVideoPlatform(R1.url).supported =>
        /\ R1.pc = "done"
        /\ DOMAIN fs = {} /\ R1.writes = 0 /\ R1.touched = {}
        /\ \A k \in 1..Len(R1.stages) : R1.stages[k] = "classify"
        /\ R1.entry = "direct" =>
              /\ R1.pv = "raised"
              /\ R1.error.message = MsgUnsupportedPlatform \o R1.url
        /\ R1.entry = "route" =>
              /\ R1.response.status = 400
              /\ R1.pv = "none"
              /\ R1.attempt = 0 /\ R1.itemId = NoId /\ DOMAIN items = {}

\* C8, reached: the handler has answered 400 to a well-formed url of a page
\* that is not a video
C8_Witness ==
    /\ R1.entry = "route"
    /\ R1.url = UrlInstagramPost
    /\ R1.stages = << "classify" >>
    /\ R1.response.status = 400

\* the place of a stage in the order of the pipeline
StageRank(stage) ==
    CASE stage = "classify" -> 1
      [] stage = "captions" -> 2
      [] stage = "audio" -> 3
      [] stage = "ai" -> 4
      [] stage = "persist" -> 5

Present(v) == v.t # "undefined"

\* C10: the structured content transformVideoContent returns has at most
\* one of the payloads recipe, workout and tutorial, a payload only under
\* the type that names it, and none under the type general.
C10_TaggedUnion ==
    R1.analysed =>
        LET sc == R1.aiAnalysis.structuredContent
        IN /\ ~(Present(sc.recipe) /\ Present(sc.workout))
           /\ ~(Present(sc.recipe) /\ Present(sc.tutorial))
           /\ ~(Present(sc.workout) /\ Present(sc.tutorial))
           /\ Present(sc.recipe) => sc.type = Text(<< "r", "e", "c", "i", "p", "e" >>)
           /\ Present(sc.workout) => sc.type = Text(<< "w", "o", "r", "k", "o", "u", "t" >>)
           /\ Present(sc.tutorial) =>
                  sc.type = Text(<< "t", "u", "t", "o", "r", "i", "a", "l" >>)
\* C11, as stated: title normalisation applied to its own output returns the
\* same title, and no returned title is longer than 60 characters.
C11_TitleIdempotent ==
    /\ call.op = "cleanTitle" =>
          /\ CleanTitle(call.out) = call.out
          /\ Len(call.out) <= MaxTitleLength
    /\ call.op = "transformVideoContent" => Len(call.out.title) <= MaxTitleLength
\* C12, as stated: no summary that validateSummary or transformVideoContent
\* returns is longer than 200 characters.
C12_SummaryLength ==
    /\ call.op = "validateSummary" => Len(call.out) <= MaxSummaryLength
    /\ call.op = "transformVideoContent" =>
          IsText(call.out.summary) /\ Len(call.out.summary.s) <= MaxSummaryLength

\* C13, as stated: no summary that validateSummary or transformVideoContent
\* returns equals the title, compared without regard to case.
C13_SummaryNotTitle ==
    /\ call.op = "validateSummary" => ToLowerCase(call.out) # ToLowerCase(call.title)
    /\ call.op = "transformVideoContent" =>
          ToLowerCase(call.out.summary.s) # ToLowerCase(call.out.title)

\* The characters validateCategory keeps
IsCategoryChar(c) == IsWordChar(c) \/ IsSpace(c) \/ c = "-"

\* The number of tokens of s: the runs of characters that are no white space
Tokens(s) == Cardinality({k \in 1..Len(s) : ~IsSpace(s[k]) /\ (k = 1 \/ IsSpace(s[k - 1]))})

\* C14: validateCategory returns the canonical entry for an input that equals
\* it after trimming and ignoring case, General for an empty or non-string
\* input and for one that keeps fewer than 2 characters, and otherwise a
\* cleaned text of at most 2 tokens.
C14_CategoryNormalised ==
    call.op = "validateCategory" =>
        LET canonical == {FIXED_CATEGORIES[k] : k \in 1..Len(FIXED_CATEGORIES)}
        IN /\ \A c \in canonical :
                 (IsText(call.in) /\ ToLowerCase(Trim(call.in.s)) = ToLowerCase(c))
                     => call.out = c
           /\ (~IsText(call.in) \/ call.in.s = << >>) => call.out = GeneralCategory
           /\ (IsText(call.in) /\ Len(SelectSeq(call.in.s, IsCategoryChar)) < 2)
                 => call.out = GeneralCategory
           /\ \/ call.out \in canonical \cup {GeneralCategory}
              \/ /\ Tokens(call.out) \in 1..2
                 /\ \A k \in 1..Len(call.out) : IsCategoryChar(call.out[k])

\* C14, reached: " Technology " has given Technology, ai has given AI and
\* garbage has given General
C14_Witness ==
    /\ call.op = "validateCategory"
    /\ \/ call.in = Text(<<" ","T","e","c","h","n","o","l","o","g","y"," ">>) /\ call.out = <<"T","e","c","h","n","o","l","o","g","y">>
       \/ call.in = Text(<<"a","i">>) /\ call.out = <<"A","I">>

\* The url holds the pattern, whatever the case of its letters
Mentions(url, pattern) ==
    \E k \in 0..(Len(url) - Len(pattern)) :
        \A j \in 1..Len(pattern) : LowerChar(url[k + j]) = pattern[j]

\* C16: detectVideoPlatform answers supported exactly for the urls that hold
\* tiktok.com, or instagram.com and /reel/ or /reels/, or youtube.com or
\* youtu.be, with the type of the first of these that matches.
C16_SupportedIffPattern ==
    call.op = "detectVideoPlatform" =>
        LET tiktok == Mentions(call.in, <<"t","i","k","t","o","k",".","c","o","m">>)
            instagram == /\ Mentions(call.in, <<"i","n","s","t","a","g","r","a","m",".","c","o","m">>)
                         /\ \/ Mentions(call.in, <<"/","r","e","e","l","/">>)
                            \/ Mentions(call.in, <<"/","r","e","e","l","s","/">>)
            youtube == \/ Mentions(call.in, <<"y","o","u","t","u","b","e",".","c","o","m">>)
                       \/ Mentions(call.in, <<"y","o","u","t","u",".","b","e">>)
        IN /\ call.out.supported = (tiktok \/ instagram \/ youtube)
           /\ tiktok => call.out.type = "tiktok"
           /\ (~tiktok /\ instagram) => call.out.type = "instagram"
           /\ (~tiktok /\ ~instagram /\ youtube) => call.out.type = "youtube"

\* C16, reached: an Instagram post is answered unsupported
C16_Witness ==
    /\ call.op = "detectVideoPlatform"
    /\ call.in = UrlInstagramPost
    /\ ~call.out.supported

\* The recipe block of the answer of a transformVideoContent call: the
\* recipe member of the JSON value, when it is an object
AnsweredRecipe ==
    IF /\ call.op = "transformVideoContent"
       /\ call.answer.kind = "resolved"
       /\ call.answer.content.form \in {"json", "fenced"}
       /\ IsObjectLike(call.answer.content.value)
    THEN Get(call.answer.content.value, "recipe")
    ELSE Undefined

\* C15, as stated: the recipe returned for an answer with a recipe block has
\* arrays as ingredients and instructions ([] for what was no array), a name
\* that is not blank (Untitled Recipe for a missing or blank one), and for a
\* servings string the number of its first digit run, or no servings when
\* the string has no digit.
C15_RecipeRepaired ==
    IsObjectLike(AnsweredRecipe) =>
        LET recipe == call.out.structuredContent.recipe
            given(k) == Get(AnsweredRecipe, k)
        IN /\ IsObjectLike(recipe)
           /\ \A k \in {"ingredients", "instructions"} :
                 /\ Get(recipe, k).t = "array"
                 /\ given(k).t # "array" => Get(recipe, k) = Array(<< >>)
           /\ IsText(Get(recipe, "name")) /\ Trim(Get(recipe, "name").s) # << >>
           /\ (~IsText(given("name")) \/ Trim(given("name").s) = << >>)
                 => Get(recipe, "name").s = <<"U","n","t","i","t","l","e","d"," ","R","e","c","i","p","e">>
           /\ IsText(given("servings")) =>
                 IF \E j \in 1..Len(given("servings").s) : IsDigit(given("servings").s[j])
                 THEN /\ Get(recipe, "servings").t = "number"
                      /\ NatToText(Get(recipe, "servings").n) = FirstDigitRun(given("servings").s)
                 ELSE Get(recipe, "servings") = Undefined

\* C17: extractCaptions always returns: null when the tool fails, when no
\* subtitle file is found, when the file cannot be read or has a format that
\* is not parsed, and when the text has 50 characters or fewer; a string only
\* when it is longer than 50 characters.
C17_CaptionsNullOrLong ==
    [][ (R1.pc = "capTool" /\ R1'.pc # "capTool") =>
          /\ \/ R1'.captions = Null
             \/ IsText(R1'.captions) /\ Len(R1'.captions.s) > MinCaptionLength
          /\ \A ok \in BOOLEAN, readOk \in BOOLEAN :
             \A f \in IF ok /\ CaptionFiles(fs, R1) # {}
                      THEN SubtitleChoices(CaptionFiles(fs, R1)) ELSE {NoFile} :
                LET captions == ExtractCaptionsEnds(fs, R1, ok, f, readOk).r.captions
                    parsed == IF f.ext = "vtt" THEN ParseVtt(fs[f].data)
                              ELSE ParseSrt(fs[f].data)
                IN IF ~ok \/ f = NoFile \/ ~readOk \/ f.ext \notin {"vtt", "srt"}
                   THEN captions = Null
                   ELSE IF Len(parsed) <= MinCaptionLength
                   THEN captions = Null
                   ELSE captions = Text(parsed) ]_vars

\* C17, reached: extractCaptions found a subtitle file, returned null, and
\* processVideo went on to the audio extraction
C17_Witness ==
    /\ R1.captions = Null
    /\ R1.touched # {}
    /\ R1.pc = "audProbe"

\* C18, as stated: every pipeline invocation that has started eventually
\* returns a result or raises an error.
C18_EventuallyReturns == (R1.pc # "idle") ~> (R1.pc = "done")

\* C19, user isolation: getItemsByUserId(u) and getItemById(id, u) return
\* only items whose userId is u, and updateItem and deleteItem called with a
\* userId that is not the owner of the stored item return null and false and
\* leave every stored item as it was.
C19_UserIsolation ==
    /\ call.op = "getItemsByUserId" =>
          \A i \in DOMAIN call.out : call.out[i].userId = call.userId
    /\ call.op = "getItemById" =>
          (call.out = Null \/ call.out.userId = call.userId)
    /\ (/\ call.op \in {"updateItem", "deleteItem"}
        /\ call.id \in DOMAIN call.before
        /\ call.before[call.id].userId # call.userId) =>
          /\ call.out = (IF call.op = "updateItem" THEN Null ELSE FALSE)
          /\ items = call.before

\* C19: another user's update of a stored item has been turned away, with
\* items of both users stored
C19_Witness ==
    /\ call.op = "updateItem"
    /\ call.id \in DOMAIN call.before
    /\ call.before[call.id].userId # call.userId
    /\ \E k \in DOMAIN items : items[k].userId = call.userId
    /\ call.out = Null

\* C20: jwtAuthMiddleware calls next, with req.user set, if and only if the
\* X-Dev-Token header is 'dev' and NODE_ENV is not 'production', or the
\* Authorization header is 'Bearer ' followed by a token that verifies and
\* whose userId is stored; in every other case it answers 401 and does not
\* call next.
C20_PassesIffAuthenticated ==
    call.op = "jwtAuthMiddleware" =>
        LET byDevToken == call.devToken = Text(<< "d", "e", "v" >>) /\ nodeEnv # "production"
            byBearer ==
                \E tok \in ClientTokens :
                    /\ call.authorization = Text(BearerPrefix \o tok)
                    /\ Len(tok) = 3 /\ tok[3] = "signed"
                    /\ tok[1] \in DOMAIN call.before
        IN /\ call.next <=> (byDevToken \/ byBearer)
           /\ call.next => (call.user # Undefined /\ call.status = 0)
           /\ ~call.next => (call.user = Undefined /\ call.status = 401)

\* C20: in production a request with the dev token and no Authorization
\* header has been answered 401
C20_Witness ==
    /\ call.op = "jwtAuthMiddleware"
    /\ nodeEnv = "production"
    /\ call.devToken = Text(<< "d", "e", "v" >>)
    /\ call.authorization = Undefined
    /\ call.status = 401
    /\ ~call.next

\* content, else title: the text available to the fallback
AvailableText(title, content) ==
    IF content # Null /\ content.s # << >> THEN content.s ELSE title

\* C21, as stated: whenever analyzeContent obtains no AI result it returns
\* category "General" and a summary that is a prefix of at most 200
\* characters of the available text (content, else title), or "No summary
\* available." when there is no text.
C21_FallbackPrefix ==
    (call.op = "analyzeContent" /\ call.pc = "done" /\ ~call.answered) =>
        LET text == AvailableText(call.title, call.content)
        IN /\ call.out.category = GeneralCategory
           /\ \/ text = << >> /\ call.out.summary = NoSummaryAvailable
              \/ /\ text # << >>
                 /\ Len(call.out.summary) <= MaxSummaryLength
                 /\ StartsWith(text, call.out.summary)

\* C21, amended: whenever analyzeContent obtains no AI result it returns
\* category "General" and as summary the first 160 characters of the
\* available text with the white space at both ends removed, or "No summary
\* available." when nothing is left of them.
C21_FallbackTrimmedPrefix ==
    (call.op = "analyzeContent" /\ call.pc = "done" /\ ~call.answered) =>
        LET text == AvailableText(call.title, call.content)
            first == SubSeq(text, 1, Min(160, Len(text)))
            inner == {k \in 1..Len(first) : ~IsSpace(first[k])}
            kept == IF inner = {} THEN << >>
                    ELSE SubSeq(first, CHOOSE k \in inner : \A j \in inner : k <= j,
                                CHOOSE k \in inner : \A j \in inner : k >= j)
        IN /\ call.out.category = GeneralCategory
           /\ Len(call.out.summary) <= 160
           /\ call.out.summary = IF kept = << >> THEN NoSummaryAvailable ELSE kept

\* C21: a non-model error has ended the loop after a model was asked, and
\* the content starts with white space
C21_Witness ==
    /\ call.op = "analyzeContent"
    /\ call.pc = "done"
    /\ ~call.answered
    /\ call.asked = 2
    /\ call.content # Null
    /\ call.content.s # << >>
    /\ IsSpace(call.content.s[1])
    /\ call.out.summary # NoSummaryAvailable

\* C30: the client is initialised at most once.  Once initializeOpenAI has
\* run, the client never changes, whatever happens to the key: when the key
\* was unset at the first call there is no client, and every call without a
\* client returns the fallback analysis and asks no model; every call uses
\* the one client of the process.
C30_InitialisedOnce ==
    [][ /\ initializationAttempted => (initializationAttempted' /\ openai' = openai)
        /\ (~initializationAttempted /\ initializationAttempted' /\ ~apiKey) => openai' = Null
        /\ (call'.op = "analyzeContent" /\ call' # call) =>
              /\ call'.client = openai'
              /\ call'.client = Null =>
                    /\ call'.pc = "done"
                    /\ call'.asked = 0
                    /\ ~call'.answered
                    /\ call'.out = fallbackAnalysis(call'.title, call'.content) ]_vars

\* C30: the key was unset at the first call and is set now, and a call made
\* with the key set has returned the fallback without asking a model
C30_Witness ==
    /\ initializationAttempted
    /\ openai = Null
    /\ apiKey
    /\ call.op = "analyzeContent"
    /\ call.key
    /\ call.pc = "done"
    /\ call.asked = 0

\* C22, as stated: the models are asked in the order of the list, each at
\* most once; model k+1 is asked only if the attempt on model k failed with
\* an error of the model-unavailable class; and after the first attempt
\* whose response parses, that attempt's result is returned and no later
\* model is asked.
C22_ParsedIsReturned ==
    /\ \A k \in 1..Len(R1.chatLog) : R1.chatLog[k].model = Models[k]
    /\ \A k \in 1..(Len(R1.chatLog) - 1) :
          ~R1.chatLog[k].ok /\ ModelNotFoundClass(R1.chatLog[k].error)
    /\ \A k \in 1..Len(R1.chatLog) :
          R1.chatLog[k].parsed =>
              /\ k = Len(R1.chatLog)
              /\ R1.analysed
              /\ R1.chatLog[k].ok

\* C22, amended: the models are asked in the order of the list, each at
\* most once; model k+1 is asked only if the attempt on model k failed with
\* an error of the model-unavailable class; and after the first attempt
\* that ends without an error (its response parses and the normalisation of
\* the parsed value does not throw) the loop is over, nothing but that
\* attempt's result is returned and no later model is asked.
C22_LoopOrder ==
    /\ Len(R1.chatLog) <= Len(Models)
    /\ \A k \in 1..Len(R1.chatLog) : R1.chatLog[k].model = Models[k]
    /\ \A k \in 1..(Len(R1.chatLog) - 1) :
          ~R1.chatLog[k].ok /\ ModelNotFoundClass(R1.chatLog[k].error)
    /\ \A k \in 1..Len(R1.chatLog) :
          R1.chatLog[k].ok =>
              /\ k = Len(R1.chatLog)
              /\ R1.analysed
              /\ R1.aiAnalysis = Attempt(R1.chatLog[k].answer, R1.transcript).v

\* C22: two models were unavailable and the third answered with JSON; its
\* result is the analysis
C22_Witness ==
    /\ Len(R1.chatLog) = 3
    /\ R1.chatLog[3].ok
    /\ R1.chatLog[3].parsed
    /\ R1.analysed

\* C23: once transcribeAudio has returned or raised (the write failed, the
\* client failed, or the client answered), the file it created is in the
\* temp directory no more, unless its deletion failed; and a failed
\* deletion changes nothing of the outcome: the transcript returned is the
\* client's, the error raised is the client's or the write's.
C23_TempFileDeleted ==
    R1.pv \in {"returned", "raised"} =>
        /\ \A f \in DOMAIN fs :
              (f.prefix = "whisper" /\ fs[f].by = "r1") => R1.tempKept
        /\ (R1.pv = "returned" /\ R1.tempFile # NoFile) =>
              \E k \in 1..Len(WhisperOutcomes) :
                  WhisperOutcomes[k].ok /\ R1.transcript = WhisperOutcomes[k].v
        /\ (R1.pv = "raised" /\ R1.tempFile # NoFile) =>
              \E k \in 1..Len(WhisperOutcomes) :
                  /\ ~WhisperOutcomes[k].ok
                  /\ R1.error.message =
                        MsgTranscribeAudio \o WhisperOutcomes[k].error.message

\* C23: the client failed and the deletion of the file failed too; the
\* file is still there and the error raised is the client's
C23_Witness ==
    /\ R1.pv = "raised"
    /\ R1.tempKept
    /\ R1.tempFile \in DOMAIN fs
    /\ R1.error.message = MsgTranscribeAudio \o WhisperOutcomes[5].error.message

\* C24, as stated: the label in the user prompt tells which source was
\* used.  It is the captions label only when the transcript was obtained by
\* caption extraction and holds neither "WEBVTT" nor "-->"; a transcript
\* obtained by audio transcription is always labelled "audio transcription".
C24_LabelIsProvenance ==
    R1.transcriptSource # << >> =>
        LET fromCaptions == \A k \in 1..Len(R1.stages) : R1.stages[k] # "audio"
        IN /\ R1.transcriptSource = CaptionsLabel =>
                 /\ fromCaptions
                 /\ ~Includes(R1.transcript, <<"W","E","B","V","T","T">>)
                 /\ ~Includes(R1.transcript, <<"-","-",">">>)
           /\ ~fromCaptions => R1.transcriptSource = AudioLabel

\* The value is an output of the category canonicalisation: an entry of the
\* fixed list, General, or a text of letters, digits, white space and
\* hyphens of at most 2 tokens
CanonicalCategory(v) ==
    /\ IsText(v)
    /\ \/ v.s \in {FIXED_CATEGORIES[k] : k \in 1..Len(FIXED_CATEGORIES)} \cup {GeneralCategory}
       \/ /\ Tokens(v.s) \in 1..2
          /\ \A k \in 1..Len(v.s) : IsCategoryChar(v.s[k])

\* C25, as stated: the category of every analysis that the video pipeline
\* hands to the storage is canonical, whatever category the chat model
\* has returned.
C25_StoredCategoryCanonical ==
    /\ R1.analysed => CanonicalCategory(R1.aiAnalysis.category)
    /\ \A id \in DOMAIN items : CanonicalCategory(items[id].category)

\* The text lines of the cues, in the order of the file
CueTextLines(cues) ==
    LET RECURSIVE Lines(_)
        Lines(k) == IF k > Len(cues) THEN << >> ELSE cues[k] \o Lines(k + 1)
    IN Lines(1)

\* C26, as stated: for a well-formed WebVTT file the caption text is the cue
\* text lines joined by single spaces in the order of the file, with the
\* runs of white space collapsed, and no cue text line is dropped.
C26_CaptionTextIsCueText ==
    call.op = "parseVtt" =>
        call.out = Trim(CollapseWhitespace(Join(CueTextLines(call.in), << " " >>)))

\* C27, as stated: after any sequence of upsertUser calls the maps stay
\* consistent: every user is stored under its own id, every entry of
\* userByEmail names a stored user of that email, and getUserById of the id
\* of a user that upsertUser returned (the dev user of the middleware)
\* gives that user.
C27_UserMapsConsistent ==
    /\ \A k \in DOMAIN users : users[k].id = k
    /\ \A e \in DOMAIN userByEmail :
          userByEmail[e] \in DOMAIN users /\ users[userByEmail[e]].email = e
    /\ (call.op = "jwtAuthMiddleware" /\ call.next
            /\ DevTokenAccepted(call.devToken, nodeEnv))
          => getUserById(users, call.user.id) # Null

\* C28: whatever createItem, updateItem and deleteItem are handed, an item
\* is stored under its own id, and the id, the userId and the createdAt of a
\* stored item are the same after every step that does not create the item
\* of that key.  (A createItem that draws the id of a stored item stores a
\* new item in its place.)
C28_IdentityImmutable ==
    /\ [](\A k \in DOMAIN items : items[k].id = k)
    /\ [][\A k \in (DOMAIN items) \cap (DOMAIN items') :
             \/ call'.op = "createItem" /\ call'.id = k
             \/ /\ items'[k].id = items[k].id
                /\ items'[k].userId = items[k].userId
                /\ items'[k].createdAt = items[k].createdAt]_vars

\* C28, reached: updateItem was handed another id, userId and createdAt
\* for an item that createItem had stored, and has changed its title only
C28_Witness ==
    /\ call.op = "updateItem" /\ call.out # Null
    /\ "userId" \in DOMAIN call.in /\ call.in.userId # call.userId
    /\ call.in.id # call.id /\ call.in.createdAt # call.out.createdAt
    /\ call.out.title # call.before[call.id].title
    /\ call.out.userId = call.userId
    /\ items[call.id] = call.out

\* C29: a step of PATCH /items/:id removes no item, leaves every field
\* other than userNotes and category of a link or video item as it was,
\* changes title, content or summary of note items only, and changes
\* nothing when it answers 404, which it does for an item that is missing
\* or of another user.
C29_PatchKeepsFields ==
    [][(call' # call) =>
          /\ DOMAIN items' = DOMAIN items
          /\ \A k \in DOMAIN items :
                /\ DOMAIN items'[k] = DOMAIN items[k]
                /\ items[k].type \in {"link", "video"} =>
                      \A f \in (DOMAIN items[k]) \ {"userNotes", "category"} :
                          items'[k][f] = items[k][f]
                /\ (\E f \in {"title", "content", "summary"} : items'[k][f] # items[k][f])
                      => items[k].type = "note"
          /\ call'.status = 404 => items' = items
          /\ (call.pc = "done" /\ ~OwnedBy(items, call'.id, call'.userId))
                => (call'.status = 404 /\ call'.pc = "done" /\ items' = items)]_vars

\* C29, reached: a PATCH with a title, a category and userNotes in its body
\* was answered 200 for a video item, whose category and userNotes are the
\* new ones and whose title is the old one
C29_Witness ==
    /\ call.op = "patch" /\ call.pc = "done" /\ call.status = 200
    /\ call.item.type = "video"
    /\ call.body.title # Undefined /\ call.body.category # Undefined
    /\ call.item.title = SavedItem(call.userId, "video").title
    /\ call.item.title # call.body.title
    /\ call.item.category = call.body.category
    /\ call.item.category # SavedItem(call.userId, "video").category
    /\ items[call.id] = call.item

=============================================================================
